---------------------------- MODULE Spec2Model ----------------------------
(***************************************************************************)
(* Credential and access-control core of the medical-transcription API:    *)
(* the password policy and the one-way secret of the User model            *)
(* (api/models/user.py), the JWT token service (api/security.py), the      *)
(* register / login / current-user routes (api/routes/auth.py) and the     *)
(* rate-limit backend selection of create_app (api/__init__.py) and the    *)
(* models package (api/models/__init__.py).                                *)
(*                                                                         *)
(* The specifications share the variables:                                 *)
(*   SpecPolicy   validate_password applied to bounded inputs              *)
(*   SpecRecord   set_password / check_password on one User object         *)
(*   SpecToken    create_access_token and a token_required route           *)
(*   Spec         the routes of auth.py against the users table            *)
(*   SpecBackend  the limiter block of create_app in every environment     *)
(*                (SpecBackendFair: with the fairness of its own steps)    *)
(*   SpecCounter  concurrent logins against the shared login counter       *)
(*   SpecLimits   requests under the two default limits                    *)
(*   SpecModels   initialization passes of the models in one process       *)
(*   SpecSession  held tokens across logins, password changes and restarts *)
(*   SpecRace     register requests handled concurrently                   *)
(***************************************************************************)
EXTENDS Integers, Sequences, FiniteSets, TLC

VARIABLES
    now,          \* datetime.utcnow(), in ticks of 1/TicksPerSecond second
    users,        \* rows of the users table (User objects), id = position
    issued,       \* the access token the client holds: <<>> or <<record>>
    last,         \* the last call or request and its outcome
    pw,           \* SpecPolicy: the password handed to validate_password
    bcrypt_long,  \* what the installed bcrypt does with more than 72 bytes
    app,          \* create_app: the environment, the step reached, app.limiter
    limits        \* the rate-limit counters and the requests in flight

vars == <<now, users, issued, last, pw, bcrypt_long, app, limits>>

(***************************************************************************)
(* Python values that reach the code as a password or a login name: a str  *)
(* (a sequence of characters), None, or a JSON number.                     *)
(***************************************************************************)
Str(s) == [t |-> "str", v |-> s]
None == [t |-> "NoneType", v |-> <<>>]
Num(digits) == [t |-> "int", v |-> digits]
\* a str kept whole (a user name, an e-mail address): one unit of text
Text(name) == [t |-> "str", v |-> <<name>>]

\* Python truthiness, as used by `not password`
Truthy(x) ==
    CASE x.t = "str" -> x.v # <<>>
      [] x.t = "int" -> \E i \in 1..Len(x.v) : x.v[i] # "0"
      [] OTHER -> FALSE

Range(s) == {s[i] : i \in 1..Len(s)}

UpperSeq == <<"A","B","C","D","E","F","G","H","I","J","K","L","M",
              "N","O","P","Q","R","S","T","U","V","W","X","Y","Z">>
LowerSeq == <<"a","b","c","d","e","f","g","h","i","j","k","l","m",
              "n","o","p","q","r","s","t","u","v","w","x","y","z">>
UpperChars == Range(UpperSeq)
LowerChars == Range(LowerSeq)
DigitChars == {"0","1","2","3","4","5","6","7","8","9"}

\* str.lower(), character by character
LowerChar(c) ==
    IF c \in UpperChars
    THEN LowerSeq[CHOOSE i \in 1..Len(UpperSeq) : UpperSeq[i] = c]
    ELSE c
Lower(s) == [i \in 1..Len(s) |-> LowerChar(s[i])]

(***************************************************************************)
(* User.validate_password                                                  *)
(***************************************************************************)
MinPasswordLength == 12

too_short_len8(s) == Len(s) < 8
too_short(s) == Len(s) < MinPasswordLength

has_upper(s) == \E i \in 1..Len(s) : s[i] \in UpperChars
has_lower(s) == \E i \in 1..Len(s) : s[i] \in LowerChars
has_digit(s) == \E i \in 1..Len(s) : s[i] \in DigitChars
has_special_digits_count(s) ==
    \E i \in 1..Len(s) : s[i] \notin (UpperChars \cup LowerChars)
has_special(s) ==
    \E i \in 1..Len(s) : s[i] \notin (UpperChars \cup LowerChars \cup DigitChars)

\* the list `missing`, in the order the code appends to it
missing_classes(s) ==
    (IF has_upper(s) THEN <<>> ELSE <<"uppercase letter">>)
    \o (IF has_lower(s) THEN <<>> ELSE <<"lowercase letter">>)
    \o (IF has_digit(s) THEN <<>> ELSE <<"digit">>)
    \o (IF has_special(s) THEN <<>> ELSE <<"special character">>)

\* the denylist with one more entry, of twelve characters
common_passwords_with_long_entry ==
    { <<"p","a","s","s","w","o","r","d","1","2","3">>,
      <<"q","w","e","r","t","y","1","2","3">>,
      <<"1","2","3","4","5","6","7","8","9">>,
      <<"a","d","m","i","n","1","2","3">>,
      <<"w","e","l","c","o","m","e","1">>,
      <<"l","e","t","m","e","i","n","1","2","3">>,
      <<"1","2","3","q","w","e","r","t","y">>,
      <<"a","d","m","i","n","a","d","m","i","n">>,
      <<"P","@","s","s","w","o","r","d","1">>,
      <<"P","a","s","s","w","o","r","d","1","2","3">>,
      <<"p","@","s","s","w","o","r","d","1","a","z","7">> }

common_passwords ==
    { <<"p","a","s","s","w","o","r","d","1","2","3">>,
      <<"q","w","e","r","t","y","1","2","3">>,
      <<"1","2","3","4","5","6","7","8","9">>,
      <<"a","d","m","i","n","1","2","3">>,
      <<"w","e","l","c","o","m","e","1">>,
      <<"l","e","t","m","e","i","n","1","2","3">>,
      <<"1","2","3","q","w","e","r","t","y">>,
      <<"a","d","m","i","n","a","d","m","i","n">>,
      <<"P","@","s","s","w","o","r","d","1">>,
      <<"P","a","s","s","w","o","r","d","1","2","3">> }

MsgEmpty == "Password cannot be empty"
MsgLength == "Password must be at least 12 characters long"
MsgMissing == "Password must contain at least one "
MsgCommon == "Password is too common and easily guessable"
MsgOk == "Password meets requirements"

\* a returned (is_valid, message) pair; `missing` is the joined list that
\* follows MsgMissing; exc names the exception when the call raises instead
Verdict(ok, msg, miss) == [exc |-> "", ok |-> ok, message |-> msg, missing |-> miss]
Raised(exc) == [exc |-> exc, ok |-> FALSE, message |-> "", missing |-> <<>>]

validate_password(password) ==
    IF ~Truthy(password) THEN Verdict(FALSE, MsgEmpty, <<>>)
    ELSE IF password.t # "str" THEN Raised("TypeError")    \* len() of a number
    ELSE IF too_short(password.v) THEN Verdict(FALSE, MsgLength, <<>>)
    ELSE IF missing_classes(password.v) # <<>>
         THEN Verdict(FALSE, MsgMissing, missing_classes(password.v))
    ELSE IF Lower(password.v) \in common_passwords
         THEN Verdict(FALSE, MsgCommon, <<>>)
    ELSE Verdict(TRUE, MsgOk, <<>>)

(***************************************************************************)
(* SpecPolicy: validate_password on bounded inputs.  The inputs are the    *)
(* denylist entries in several spellings and a few other strings, each     *)
(* extended by up to MaxExtend characters.                                 *)
(***************************************************************************)
MaxExtend == 3

ExtendChars == {"a", "Z", "7", "_"}

PolicySeeds ==
    common_passwords
    \cup {Lower(e) : e \in common_passwords}
    \cup { <<"P","A","S","S","W","O","R","D","1","2","3">>,
           <<"p","@","S","S","W","O","R","D","1">>,
           <<"W","e","a","k","1","!">>,
           <<"a","b","c">>,
           <<"a","b","c","d","e","f","g","h","i","j">>,
           <<"A","B","C","D","E","F","G","H","I","J">>,
           <<"0","1","2","3","4","5","6","7","8","9">>,
           <<"!","@","#","$","%","^","&","*","(",")">>,
           <<"A","b","c","d","e","f","g","h","1","é">> }

IsPrefix(s, t) == Len(s) <= Len(t) /\ \A i \in 1..Len(s) : s[i] = t[i]

Idle == [op |-> "none"]

\* create_app has not run; no limiter, so no counters
NotCreated == [pc |-> "none"]
NoLimits == [pc |-> "none"]

InitPolicy ==
    /\ pw \in {Str(s) : s \in PolicySeeds} \cup {Str(<<>>), None, Num(<<"1","2","3">>)}
    /\ last = Idle
    /\ now = 0
    /\ users = <<>>
    /\ issued = <<>>
    /\ bcrypt_long = "truncate"
    /\ app = NotCreated
    /\ limits = NoLimits

\* the caller types one more character
Extend(c) ==
    /\ pw.t = "str"
    /\ \E s \in PolicySeeds : IsPrefix(s, pw.v) /\ Len(pw.v) < Len(s) + MaxExtend
    /\ pw' = Str(Append(pw.v, c))
    /\ last' = Idle
    /\ UNCHANGED <<now, users, issued, bcrypt_long, app, limits>>

\* User.validate_password(pw)
Validate ==
    /\ last' = [op |-> "validate_password", password |-> pw,
                result |-> validate_password(pw)]
    /\ UNCHANGED <<now, users, issued, pw, bcrypt_long, app, limits>>

NextPolicy ==
    \/ \E c \in ExtendChars : Extend(c)
    \/ Validate

SpecPolicy == InitPolicy /\ [][NextPolicy]_vars

(***************************************************************************)
(* bcrypt, as User.set_password and User.check_password use it             *)
(***************************************************************************)
BcryptRounds == 12
BcryptMaxBytes == 72

\* str.encode('utf-8'): one byte for an ASCII character, two for "é"
RECURSIVE Utf8(_)
Utf8(s) ==
    IF s = <<>> THEN <<>>
    ELSE (IF Head(s) = "é" THEN <<"0xC3", "0xA9">> ELSE <<Head(s)>>) \o Utf8(Tail(s))

\* The value of the hashed_password column: None, a bcrypt string
\* "$2b$<cost>$<salt><digest>", or any other text.  The digest stands for
\* the one-way image of (cost, salt, key bytes): equal exactly when they are.
NoSecret == [fmt |-> "None", cost |-> 0, salt |-> "", digest |-> <<>>]
TextSecret(chars) == [fmt |-> "text", cost |-> 0, salt |-> "", digest |-> chars]
BcryptSecret(cost, salt, key) ==
    [fmt |-> "bcrypt", cost |-> cost, salt |-> salt, digest |-> key]

SecretTruthy(h) == h.fmt = "bcrypt" \/ (h.fmt = "text" /\ h.digest # <<>>)

Salts == {"salt1", "salt2"}

\* bcrypt.hashpw(password_bytes, salt): bcrypt reads at most 72 bytes of the
\* password; releases before 5.0 drop the rest silently, later ones raise.
hashpw(bytes, cost, salt, long) ==
    IF Len(bytes) > BcryptMaxBytes /\ long = "raise"
    THEN [exc |-> "ValueError", value |-> NoSecret]
    ELSE [exc |-> "",
          value |-> BcryptSecret(cost, salt,
                      SubSeq(bytes, 1, IF Len(bytes) > BcryptMaxBytes
                                       THEN BcryptMaxBytes ELSE Len(bytes)))]

\* bcrypt.checkpw(password_bytes, hashed_bytes)
checkpw(bytes, hashed, long) ==
    IF hashed.fmt # "bcrypt" THEN [exc |-> "ValueError", value |-> FALSE]   \* Invalid salt
    ELSE IF hashpw(bytes, hashed.cost, hashed.salt, long).exc # ""
    THEN [exc |-> "ValueError", value |-> FALSE]
    ELSE [exc |-> "",
          value |-> hashpw(bytes, hashed.cost, hashed.salt, long).value = hashed]

(***************************************************************************)
(* The User model                                                          *)
(***************************************************************************)
\* User(username=..., email=...) before anything else is set
NewUser(id, username, email) ==
    [id |-> id, username |-> username, email |-> email,
     hashed_password |-> NoSecret,
     password_changed_at |-> <<>>,
     password_reset_token |-> <<>>,
     password_reset_expires |-> <<>>,
     login_attempts |-> <<>>,
     last_login_at |-> <<>>,
     is_active |-> <<>>,
     created_at |-> <<>>]

\* the column defaults the insert fills in (is_active, created_at,
\* login_attempts)
Inserted(user, t) ==
    [user EXCEPT !.is_active = <<TRUE>>, !.created_at = <<t>>,
                 !.login_attempts = <<0>>]

\* User.set_password: the exception it raises ("" for none), the message of
\* the exception, and the object afterwards
set_password_mutate_first(user, password, salt, t, long) ==
    LET v == validate_password(password)
        cleared == [user EXCEPT !.password_reset_token = <<>>,
                                !.password_reset_expires = <<>>]
    IN  IF v.exc # "" THEN [exc |-> v.exc, message |-> "", missing |-> <<>>, user |-> cleared]
        ELSE IF ~v.ok
        THEN [exc |-> "ValueError", message |-> v.message, missing |-> v.missing,
              user |-> cleared]
        ELSE LET h == hashpw(Utf8(password.v), BcryptRounds, salt, long)
             IN  IF h.exc # ""
                 THEN [exc |-> h.exc, message |-> "", missing |-> <<>>, user |-> cleared]
                 ELSE [exc |-> "", message |-> "", missing |-> <<>>,
                       user |-> [cleared EXCEPT !.hashed_password = h.value,
                                                !.password_changed_at = <<t>>]]

\* set_password that clears the reset token but leaves its expiry
set_password_keeps_reset_expires(user, password, salt, t, long) ==
    LET v == validate_password(password)
    IN  IF v.exc # "" THEN [exc |-> v.exc, message |-> "", missing |-> <<>>, user |-> user]
        ELSE IF ~v.ok
        THEN [exc |-> "ValueError", message |-> v.message, missing |-> v.missing,
              user |-> user]
        ELSE LET h == hashpw(Utf8(password.v), BcryptRounds, salt, long)
             IN  IF h.exc # ""
                 THEN [exc |-> h.exc, message |-> "", missing |-> <<>>, user |-> user]
                 ELSE [exc |-> "", message |-> "", missing |-> <<>>,
                       user |-> [user EXCEPT !.hashed_password = h.value,
                                             !.password_changed_at = <<t>>,
                                             !.password_reset_token = <<>>]]

set_password(user, password, salt, t, long) ==
    LET v == validate_password(password)
    IN  IF v.exc # "" THEN [exc |-> v.exc, message |-> "", missing |-> <<>>, user |-> user]
        ELSE IF ~v.ok
        THEN [exc |-> "ValueError", message |-> v.message, missing |-> v.missing,
              user |-> user]
        ELSE LET h == hashpw(Utf8(password.v), BcryptRounds, salt, long)
             IN  IF h.exc # ""
                 THEN [exc |-> h.exc, message |-> "", missing |-> <<>>, user |-> user]
                 ELSE [exc |-> "", message |-> "", missing |-> <<>>,
                       user |-> [user EXCEPT !.hashed_password = h.value,
                                             !.password_changed_at = <<t>>,
                                             !.password_reset_token = <<>>,
                                             !.password_reset_expires = <<>>]]

\* the body of the try block of check_password
check_password_try(user, password, long) ==
    IF password.t # "str"
    THEN [exc |-> "AttributeError", value |-> FALSE]     \* no .encode
    ELSE checkpw(Utf8(password.v), user.hashed_password, long)

\* the same with `except ValueError` in place of `except Exception`
check_password_narrow_except(user, password, long) ==
    IF ~Truthy(password) \/ ~SecretTruthy(user.hashed_password)
    THEN [exc |-> "", value |-> FALSE]
    ELSE LET r == check_password_try(user, password, long)
         IN  IF r.exc = "ValueError" THEN [exc |-> "", value |-> FALSE] ELSE r

\* User.check_password: exc is the exception that leaves the method
check_password(user, password, long) ==
    IF ~Truthy(password) \/ ~SecretTruthy(user.hashed_password)
    THEN [exc |-> "", value |-> FALSE]
    ELSE LET r == check_password_try(user, password, long)
         IN  IF r.exc # "" THEN [exc |-> "", value |-> FALSE] ELSE r

(***************************************************************************)
(* The token service (api/security.py) and PyJWT as it uses it             *)
(***************************************************************************)
\* Config.get_jwt_secret_key: the key of the configuration (the SECRET_KEY
\* of the environment), or the built-in one
get_jwt_secret_key(config) ==
    IF config.jwt_secret_key # <<>> THEN config.jwt_secret_key[1]
    ELSE "your-jwt-secret-key-change-this-in-production"

\* the configuration of the running process: app where the specification
\* keeps it there, else nothing configured
ProcessConfig ==
    IF "jwt_secret_key" \in DOMAIN app THEN app ELSE [jwt_secret_key |-> <<>>]

\* SECRET_KEY of api/security.py, read when the process imports it
SECRET_KEY == get_jwt_secret_key(ProcessConfig)
ALGORITHM == "HS256"
ACCESS_TOKEN_EXPIRE_MINUTES == 30

\* resolution of the clock: datetime.utcnow() has a fraction of a second,
\* the exp claim of a token is in whole seconds
TicksPerSecond == 2

Minutes(n) == n * 60 * TicksPerSecond

\* timedelta values are <<ticks>>; <<>> is None.  timedelta(0) is falsy.
TimedeltaTruthy(d) == d # <<>> /\ d[1] # 0

\* The HMAC over header and claims under a key: equal exactly when key,
\* algorithm and claims are.
Sign(key, alg, payload) == [key |-> key, alg |-> alg, payload |-> payload]

\* jwt.encode: a datetime exp becomes timegm(exp.utctimetuple()), whole seconds
jwt_encode(claims, key, alg) ==
    LET payload == [sub |-> claims.sub, exp |-> claims.exp \div TicksPerSecond]
    IN  [wf |-> TRUE, alg |-> alg, payload |-> payload, sig |-> <<Sign(key, alg, payload)>>]

\* jwt.decode without the signature check
jwt_decode_unverified(token, key, algorithms, t) ==
    IF ~token.wf THEN [exc |-> "DecodeError", payload |-> token.payload]
    ELSE IF token.payload.exp * TicksPerSecond <= t
    THEN [exc |-> "ExpiredSignatureError", payload |-> token.payload]
    ELSE [exc |-> "", payload |-> token.payload]

\* jwt.decode(token, key, algorithms=[...]) at time t: the exception it
\* raises ("" for none) and the claims it returns
jwt_decode(token, key, algorithms, t) ==
    IF ~token.wf THEN [exc |-> "DecodeError", payload |-> token.payload]
    ELSE IF token.alg \notin algorithms
    THEN [exc |-> "InvalidAlgorithmError", payload |-> token.payload]
    ELSE IF token.sig # <<Sign(key, token.alg, token.payload)>>
    THEN [exc |-> "InvalidSignatureError", payload |-> token.payload]
    ELSE IF token.payload.exp * TicksPerSecond <= t
    THEN [exc |-> "ExpiredSignatureError", payload |-> token.payload]
    ELSE [exc |-> "", payload |-> token.payload]

\* the subclasses of jwt.InvalidTokenError other than ExpiredSignatureError
InvalidTokenErrors == {"DecodeError", "InvalidAlgorithmError", "InvalidSignatureError"}

\* create_access_token with `to_encode = {}` in place of data.copy()
create_access_token_drops_data(data, expires_delta, t) ==
    LET expire == IF TimedeltaTruthy(expires_delta)
                  THEN t + expires_delta[1]
                  ELSE t + Minutes(ACCESS_TOKEN_EXPIRE_MINUTES)
    IN  jwt_encode([sub |-> <<>>, exp |-> expire], SECRET_KEY, ALGORITHM)

\* create_access_token(data, expires_delta) called at time t
create_access_token(data, expires_delta, t) ==
    LET expire == IF TimedeltaTruthy(expires_delta)
                  THEN t + expires_delta[1]
                  ELSE t + Minutes(ACCESS_TOKEN_EXPIRE_MINUTES)
    IN  jwt_encode([sub |-> data.sub, exp |-> expire], SECRET_KEY, ALGORITHM)

\* The Authorization header: <<>> when absent, else <<[prefix, rest]>> with
\* prefix its first seven characters and rest what follows them (<<>> for
\* nothing, else <<token>>).
NoHeader == <<>>
Header(prefix, rest) == <<[prefix |-> prefix, rest |-> rest]>>

\* get_token_from_header with a case-insensitive prefix test
get_token_from_header_any_case(header) ==
    IF header # <<>> /\ header[1].prefix \in {"Bearer ", "bearer "}
    THEN [t |-> "str", tok |-> header[1].rest]
    ELSE [t |-> "NoneType", tok |-> <<>>]

\* get_token_from_header: the str after 'Bearer ', or None
get_token_from_header(header) ==
    IF header # <<>> /\ header[1].prefix = "Bearer "
    THEN [t |-> "str", tok |-> header[1].rest]
    ELSE [t |-> "NoneType", tok |-> <<>>]

\* User.query.filter_by(username=...).first(): <<>> or <<row>>
ByUsername(table, name) ==
    LET hits == {i \in 1..Len(table) : table[i].username = name}
    IN  IF hits = {} THEN <<>>
        ELSE <<table[CHOOSE i \in hits : \A j \in hits : i <= j]>>

\* to_dict that copies every column
to_dict_all_columns(user) == user

\* User.to_dict
to_dict(user) ==
    [id |-> user.id, username |-> user.username, email |-> user.email,
     is_active |-> user.is_active, created_at |-> user.created_at,
     last_login_at |-> user.last_login_at,
     password_changed_at |-> user.password_changed_at]

\* A response: status, the 'message' of the JSON body ("" when the body is
\* something else), the body of a success, whether the wrapped handler ran
\* and g.current_user (<<>> when unset).
Reply(status, message) ==
    [status |-> status, message |-> message, body |-> <<>>, ran |-> FALSE,
     current_user |-> <<>>]

\* get_current_user, the handler behind token_required
get_current_user(user) ==
    [status |-> 200, message |-> "", body |-> <<to_dict(user)>>, ran |-> TRUE,
     current_user |-> <<user>>]

\* token_required that refuses a token issued before the last password
\* change of its subject
token_required_revokes_on_password_change(header, t, table) ==
    LET token == get_token_from_header(header)
    IN  IF token.tok = <<>> THEN Reply(401, "Token is missing")
        ELSE LET d == jwt_decode(token.tok[1], SECRET_KEY, {ALGORITHM}, t)
             IN  IF d.exc = "ExpiredSignatureError" THEN Reply(401, "Token has expired")
                 ELSE IF d.exc \in InvalidTokenErrors THEN Reply(401, "Invalid token")
                 ELSE IF d.payload.sub = <<>> THEN Reply(500, "")
                 ELSE LET user == ByUsername(table, d.payload.sub[1])
                      IN  IF user = <<>> THEN Reply(401, "Invalid token")
                          ELSE IF /\ user[1].password_changed_at # <<>>
                                  /\ d.payload.exp * TicksPerSecond
                                       - Minutes(ACCESS_TOKEN_EXPIRE_MINUTES)
                                       < user[1].password_changed_at[1]
                          THEN Reply(401, "Invalid token")
                          ELSE get_current_user(user[1])

\* token_required(get_current_user) for a request with this header at time t
token_required(header, t, table) ==
    LET token == get_token_from_header(header)
    IN  IF token.tok = <<>> THEN Reply(401, "Token is missing")
        ELSE LET d == jwt_decode(token.tok[1], SECRET_KEY, {ALGORITHM}, t)
             IN  IF d.exc = "ExpiredSignatureError" THEN Reply(401, "Token has expired")
                 ELSE IF d.exc \in InvalidTokenErrors THEN Reply(401, "Invalid token")
                 ELSE IF d.payload.sub = <<>> THEN Reply(500, "")    \* KeyError: 'sub'
                 ELSE LET user == ByUsername(table, d.payload.sub[1])
                      IN  IF user = <<>> THEN Reply(401, "Invalid token")
                          ELSE get_current_user(user[1])

(***************************************************************************)
(* SpecRecord: the methods of one User object                              *)
(***************************************************************************)
PwWeak == Str(<<"W","e","a","k","1","!">>)
PwHorse == Str(<<"C","o","r","r","e","c","t","H","o","r","s","e","9","!","B","a","t","t","e","r","y">>)
PwSunny == Str(<<"S","u","n","n","y","-","D","a","y","4","W","a","l","k","i","n","g">>)
Base72 == <<"A", "a", "1", "!">> \o [i \in 1..(BcryptMaxBytes - 4) |-> "x"]
PwLongA == Str(Append(Base72, "a"))
PwLongB == Str(Append(Base72, "b"))

RecordPasswords ==
    {Str(<<>>), None, Num(<<"1", "2", "3", "4">>),
     PwWeak, PwHorse, PwSunny, PwLongA, PwLongB}

MaxClock == 2

\* a User object as the session can hold it: fresh from the constructor, or
\* loaded from a row whose secret an earlier release or another tool wrote,
\* with or without a pending reset token
RecordStates ==
    {[NewUser(1, "alice", "alice@example.org") EXCEPT
          !.password_reset_token = r[1],
          !.password_reset_expires = r[2]] :
       r \in {<< <<>>, <<>> >>, << <<"reset-token">>, <<1>> >>}}
    \cup
    {[Inserted(NewUser(1, "alice", "alice@example.org"), 0) EXCEPT
          !.hashed_password = h,
          !.password_reset_token = r[1],
          !.password_reset_expires = r[2]] :
       h \in {TextSecret(<<>>), TextSecret(PwHorse.v),
              BcryptSecret(10, "salt0", Utf8(PwSunny.v))},
       r \in {<< <<>>, <<>> >>, << <<"reset-token">>, <<1>> >>}}

InitRecord ==
    /\ users \in {<<u>> : u \in RecordStates}
    /\ bcrypt_long \in {"truncate", "raise"}
    /\ app = NotCreated
    /\ limits = NoLimits
    /\ now = 0
    /\ issued = <<>>
    /\ last = Idle
    /\ pw = None

\* user.set_password(password)
SetPassword(i, password, salt) ==
    LET r == set_password(users[i], password, salt, now, bcrypt_long)
    IN  /\ users' = [users EXCEPT ![i] = r.user]
        /\ last' = [op |-> "set_password", password |-> password,
                    exc |-> r.exc, message |-> r.message, missing |-> r.missing,
                    before |-> users[i], at |-> now]
        /\ UNCHANGED <<now, issued, pw, bcrypt_long, app, limits>>

\* user.check_password(password)
CheckPassword(i, password) ==
    /\ last' = [op |-> "check_password", password |-> password,
                result |-> check_password(users[i], password, bcrypt_long)]
    /\ UNCHANGED <<now, users, issued, pw, bcrypt_long, app, limits>>

\* the clock advances by one tick
Tick ==
    /\ now % Minutes(ACCESS_TOKEN_EXPIRE_MINUTES) < MaxClock
    /\ now' = now + 1
    /\ UNCHANGED <<users, issued, last, pw, bcrypt_long, app, limits>>

NextRecord ==
    \/ \E p \in RecordPasswords, s \in Salts : SetPassword(1, p, s)
    \/ \E p \in RecordPasswords : CheckPassword(1, p)
    \/ Tick

SpecRecord == InitRecord /\ [][NextRecord]_vars

(***************************************************************************)
(* SpecToken: create_access_token and a route behind token_required, with  *)
(* one registered user                                                     *)
(***************************************************************************)
MaxDelta == 3

\* the expires_delta arguments: None, and timedeltas from -1 tick up
Deltas == {<<>>} \cup {<<d>> : d \in -1..MaxDelta}

\* the data arguments: {'sub': s} for a registered name, an unregistered
\* name and the empty string, and a dict without 'sub'
TokenData == {[sub |-> <<"alice">>], [sub |-> <<"mallory">>], [sub |-> <<"">>],
              [sub |-> <<>>]}

Alice ==
    [Inserted(NewUser(1, "alice", "alice@example.org"), 0) EXCEPT
        !.hashed_password = BcryptSecret(BcryptRounds, "salt1", Utf8(PwHorse.v)),
        !.password_changed_at = <<0>>]

Garbage == [wf |-> FALSE, alg |-> "", payload |-> [sub |-> <<>>, exp |-> 0], sig |-> <<>>]

\* What a client can put in a token without the server's key: a token it
\* signs with a key of its own, an unsigned token with alg none, and, from a
\* token t it holds, t with the subject or the expiry rewritten and t's
\* signature kept, and t with the header algorithm rewritten.
Forgeries(held, t) ==
    LET claims == [sub |-> <<"alice">>, exp |-> (t \div TicksPerSecond) + 60]
        stale == [sub |-> <<"alice">>, exp |-> (t \div TicksPerSecond) - 1]
    IN  { [wf |-> TRUE, alg |-> ALGORITHM, payload |-> c,
           sig |-> <<Sign("guessed-key", ALGORITHM, c)>>] : c \in {claims, stale} }
        \cup { [wf |-> TRUE, alg |-> "none", payload |-> claims, sig |-> <<>>] }
        \cup { [x EXCEPT !.payload.sub = <<"alice">>] : x \in held }
        \cup { [x EXCEPT !.payload.exp = claims.exp] : x \in held }
        \cup { [x EXCEPT !.alg = "HS512"] : x \in held }

HeldTokens == {issued[i].token : i \in 1..Len(issued)}

\* the Authorization headers a request can carry in the current state
Headers ==
    LET toks == HeldTokens \cup Forgeries(HeldTokens, now) \cup {Garbage}
    IN  {NoHeader, Header("Bearer ", <<>>)}
        \cup {Header("Bearer ", <<x>>) : x \in toks}
        \cup {Header(p, <<x>>) : p \in {"bearer ", "Basic d"}, x \in HeldTokens}

InitToken ==
    /\ users = <<Alice>>
    /\ now = 0
    /\ issued = <<>>
    /\ last = Idle
    /\ pw = None
    /\ bcrypt_long \in {"truncate", "raise"}
    /\ app = NotCreated
    /\ limits = NoLimits

\* a caller in the server calls create_access_token(data, expires_delta)
IssueToken(data, delta) ==
    /\ issued' = <<[token |-> create_access_token(data, delta, now),
                    sub |-> data.sub, delta |-> delta, at |-> now]>>
    /\ last' = [op |-> "create_access_token"]
    /\ UNCHANGED <<now, users, pw, bcrypt_long, app, limits>>

\* GET /api/users/me
GetCurrentUser(header) ==
    /\ last' = [op |-> "get_current_user", header |-> header, at |-> now,
                resp |-> token_required(header, now, users)]
    /\ UNCHANGED <<now, users, issued, pw, bcrypt_long, app, limits>>

MaxElapses == 1

\* the default token lifetime passes
Elapse ==
    /\ now < MaxElapses * Minutes(ACCESS_TOKEN_EXPIRE_MINUTES)
    /\ now' = now + Minutes(ACCESS_TOKEN_EXPIRE_MINUTES)
    /\ UNCHANGED <<users, issued, last, pw, bcrypt_long, app, limits>>

NextToken ==
    \/ \E data \in TokenData, delta \in Deltas : IssueToken(data, delta)
    \/ \E h \in Headers : GetCurrentUser(h)
    \/ Tick
    \/ Elapse

SpecToken == InitToken /\ [][NextToken]_vars

(***************************************************************************)
(* The routes of api/routes/auth.py                                        *)
(***************************************************************************)
\* User.query.filter_by(email=...).first(): <<>> or <<row>>
ByEmail(table, email) ==
    LET hits == {i \in 1..Len(table) : table[i].email = email}
    IN  IF hits = {} THEN <<>>
        ELSE <<table[CHOOSE i \in hits : \A j \in hits : i <= j]>>

\* register() that adds the row before it sets the password and commits
\* whatever happened
register_commits_on_error(body, salt, t, table, long) ==
    IF body = <<>>
    THEN [resp |-> Reply(400, "No input data provided"), table |-> table, details |-> FALSE]
    ELSE LET data == body[1] IN
    IF ~Truthy(data.username) \/ ~Truthy(data.email) \/ ~Truthy(data.password)
    THEN [resp |-> Reply(400, "Missing required fields"), table |-> table, details |-> FALSE]
    ELSE IF ByEmail(table, data.email.v[1]) # <<>>
    THEN [resp |-> Reply(400, "Email already registered"), table |-> table, details |-> FALSE]
    ELSE IF ByUsername(table, data.username.v[1]) # <<>>
    THEN [resp |-> Reply(400, "Username already taken"), table |-> table, details |-> FALSE]
    ELSE LET new_user == NewUser(Len(table) + 1, data.username.v[1], data.email.v[1])
             r == set_password(new_user, data.password, salt, t, long)
             row == Inserted(r.user, t)
         IN  IF r.exc # ""
             THEN [resp |-> [Reply(500, "Server error: ") EXCEPT !.body = <<r.message>>],
                   table |-> Append(table, row), details |-> TRUE]
             ELSE [resp |-> [Reply(201, "") EXCEPT !.body = <<to_dict(row)>>],
                   table |-> Append(table, row), details |-> FALSE]

\* register(): the response, the rows afterwards, and whether the response
\* carries the traceback ('details')
register(body, salt, t, table, long) ==
    IF body = <<>>
    THEN [resp |-> Reply(400, "No input data provided"), table |-> table, details |-> FALSE]
    ELSE LET data == body[1] IN
    IF ~Truthy(data.username) \/ ~Truthy(data.email) \/ ~Truthy(data.password)
    THEN [resp |-> Reply(400, "Missing required fields"), table |-> table, details |-> FALSE]
    ELSE IF ByEmail(table, data.email.v[1]) # <<>>
    THEN [resp |-> Reply(400, "Email already registered"), table |-> table, details |-> FALSE]
    ELSE IF ByUsername(table, data.username.v[1]) # <<>>
    THEN [resp |-> Reply(400, "Username already taken"), table |-> table, details |-> FALSE]
    ELSE LET new_user == NewUser(Len(table) + 1, data.username.v[1], data.email.v[1])
             r == set_password(new_user, data.password, salt, t, long)
         IN  IF r.exc # ""
             THEN [resp |-> [Reply(500, "Server error: ") EXCEPT !.body = <<r.message>>],
                   table |-> table, details |-> TRUE]
             ELSE LET row == Inserted(r.user, t)
                  IN  [resp |-> [Reply(201, "") EXCEPT !.body = <<to_dict(row)>>],
                       table |-> Append(table, row), details |-> FALSE]

\* the answers of limiter.limit(...)(lambda: None)(): the call returns, it
\* raises RateLimitExceeded, or it raises something else (no app.limiter, a
\* storage error)
Admissions == {"admit", "reject", "error"}

\* login() with `if not user:` in place of the password check
login_skips_password(username, password, admission, t, table, long) ==
    IF admission = "reject"
    THEN [resp |-> Reply(429, "Too Many Requests"), token |-> <<>>, steps |-> <<"limiter">>]
    ELSE IF admission = "error"
    THEN [resp |-> Reply(500, ""), token |-> <<>>, steps |-> <<"limiter">>]
    ELSE IF ~Truthy(username) \/ ~Truthy(password)
    THEN [resp |-> Reply(400, "Missing email or password"), token |-> <<>>,
          steps |-> <<"limiter">>]
    ELSE LET user == ByEmail(table, username.v[1]) IN
    IF user = <<>>
    THEN [resp |-> Reply(401, "Invalid email or password"), token |-> <<>>,
          steps |-> <<"limiter">>]
    ELSE [resp |-> Reply(200, ""),
          token |-> <<create_access_token([sub |-> <<user[1].username>>],
                                          <<Minutes(30)>>, t)>>,
          steps |-> <<"limiter", "create_access_token">>]

\* login() that answers an unknown email with its own status and message
login_reveals_unknown_user(username, password, admission, t, table, long) ==
    IF admission = "reject"
    THEN [resp |-> Reply(429, "Too Many Requests"), token |-> <<>>, steps |-> <<"limiter">>]
    ELSE IF admission = "error"
    THEN [resp |-> Reply(500, ""), token |-> <<>>, steps |-> <<"limiter">>]
    ELSE IF ~Truthy(username) \/ ~Truthy(password)
    THEN [resp |-> Reply(400, "Missing email or password"), token |-> <<>>,
          steps |-> <<"limiter">>]
    ELSE LET user == ByEmail(table, username.v[1]) IN
    IF user = <<>>
    THEN [resp |-> Reply(404, "User not found"), token |-> <<>>,
          steps |-> <<"limiter">>]
    ELSE IF ~check_password(user[1], password, long).value
    THEN [resp |-> Reply(401, "Invalid email or password"), token |-> <<>>,
          steps |-> <<"limiter", "check_password">>]
    ELSE [resp |-> Reply(200, ""),
          token |-> <<create_access_token([sub |-> <<user[1].username>>],
                                          <<Minutes(30)>>, t)>>,
          steps |-> <<"limiter", "check_password", "create_access_token">>]

\* login(): the response, the access token of a success, and the order in
\* which the limiter, check_password and create_access_token were called
login(username, password, admission, t, table, long) ==
    IF admission = "reject"
    THEN [resp |-> Reply(429, "Too Many Requests"), token |-> <<>>, steps |-> <<"limiter">>]
    ELSE IF admission = "error"
    THEN [resp |-> Reply(500, ""), token |-> <<>>, steps |-> <<"limiter">>]
    ELSE IF ~Truthy(username) \/ ~Truthy(password)
    THEN [resp |-> Reply(400, "Missing email or password"), token |-> <<>>,
          steps |-> <<"limiter">>]
    ELSE LET user == ByEmail(table, username.v[1]) IN
    IF user = <<>>
    THEN [resp |-> Reply(401, "Invalid email or password"), token |-> <<>>,
          steps |-> <<"limiter">>]
    ELSE IF ~check_password(user[1], password, long).value
    THEN [resp |-> Reply(401, "Invalid email or password"), token |-> <<>>,
          steps |-> <<"limiter", "check_password">>]
    ELSE [resp |-> Reply(200, ""),
          token |-> <<create_access_token([sub |-> <<user[1].username>>],
                                          <<Minutes(30)>>, t)>>,
          steps |-> <<"limiter", "check_password", "create_access_token">>]

(***************************************************************************)
(* Spec: the routes against the users table                                *)
(***************************************************************************)
Usernames == {"alice", "bob"}
Emails == {"alice@example.org", "bob@example.org"}

RegisterBodies ==
    {<<>>}
    \cup {<<[username |-> Text(u), email |-> Text(e), password |-> p]>> :
            u \in Usernames, e \in Emails, p \in {PwWeak, PwHorse}}
    \cup {<<[username |-> Text("alice"), email |-> Text("alice@example.org"),
             password |-> None]>>}

LoginNames == {Text(e) : e \in Emails} \cup {None}
LoginPasswords == {PwHorse, PwSunny, Str(<<>>)}

Init ==
    /\ users = <<>>
    /\ now = 0
    /\ issued = <<>>
    /\ last = Idle
    /\ pw = None
    /\ bcrypt_long \in {"truncate", "raise"}
    /\ app = NotCreated
    /\ limits = NoLimits

\* POST /api/register
Register(body, salt) ==
    LET r == register(body, salt, now, users, bcrypt_long)
    IN  /\ users' = r.table
        /\ last' = [op |-> "register", body |-> body, resp |-> r.resp,
                    details |-> r.details]
        /\ UNCHANGED <<now, issued, pw, bcrypt_long, app, limits>>

\* POST /api/token
Login(username, password, admission) ==
    LET r == login(username, password, admission, now, users, bcrypt_long)
    IN  /\ last' = [op |-> "login", username |-> username, password |-> password,
                    admission |-> admission, at |-> now, resp |-> r.resp,
                    token |-> r.token, steps |-> r.steps]
        /\ issued' = IF r.token = <<>> THEN issued
                     ELSE <<[token |-> r.token[1], sub |-> r.token[1].payload.sub,
                             delta |-> <<Minutes(30)>>, at |-> now]>>
        /\ UNCHANGED <<now, users, pw, bcrypt_long, app, limits>>

Next ==
    \/ \E b \in RegisterBodies, s \in Salts : Register(b, s)
    \/ \E u \in LoginNames, p \in LoginPasswords, a \in Admissions : Login(u, p, a)
    \/ \E h \in Headers : GetCurrentUser(h)
    \/ Elapse

Spec == Init /\ [][Next]_vars

(***************************************************************************)
(* The rate-limit backend selection of create_app (api/__init__.py), with  *)
(* get_redis_client (api/utils/redis_fix.py) and get_redis_storage         *)
(* (api/utils/redis_compat.py)                                             *)
(***************************************************************************)
\* os.environ.get('REDIS_URL', 'redis://localhost:6379/0')
DefaultRedisUrl == "redis://localhost:6379/0"
environ_get_default_none(environ) == environ.REDIS_URL
environ_get(environ) ==
    IF environ.REDIS_URL = <<>> THEN <<DefaultRedisUrl>> ELSE environ.REDIS_URL

\* the host a Redis URL names; <<>> for a URL redis.from_url refuses
\* (ValueError: the scheme is not redis://, rediss:// or unix://)
HostOf(url) ==
    CASE url = "redis://localhost:6379/0" -> <<"localhost">>
      [] url = "redis://cache:6379/0"     -> <<"cache">>
      [] OTHER                            -> <<>>

\* a log record; app.logger and the module loggers write to one stream
Log(level, message) == [level |-> level, message |-> message]

\* redis.from_url(url, socket_timeout=5, socket_connect_timeout=5,
\* retry_on_timeout=True) without the two timeouts
from_url_no_timeout(url) ==
    IF HostOf(url) = <<>> THEN [exc |-> "ValueError", client |-> <<>>]
    ELSE [exc |-> "",
          client |-> <<[host |-> HostOf(url)[1], socket_timeout |-> <<>>,
                        socket_connect_timeout |-> <<>>,
                        retry_on_timeout |-> TRUE]>>]

\* redis.from_url(...): builds the client, connects to nothing yet
from_url(url) ==
    IF HostOf(url) = <<>> THEN [exc |-> "ValueError", client |-> <<>>]
    ELSE [exc |-> "",
          client |-> <<[host |-> HostOf(url)[1], socket_timeout |-> <<5>>,
                        socket_connect_timeout |-> <<5>>,
                        retry_on_timeout |-> TRUE]>>]

\* get_redis_client up to the point where client.ping() waits for the
\* server: the client (<<>> when the function has returned None) and the
\* records logged
get_redis_client_connect(redis_url, environ) ==
    LET url == IF redis_url = <<>> THEN environ_get_default_none(environ) ELSE redis_url
    IN  IF url = <<>>
        THEN [client |-> <<>>, log |-> <<Log("warning", "No REDIS_URL found in environment")>>]
        ELSE LET c == from_url(url[1])
             IN  IF c.exc # ""
                 THEN [client |-> <<>>,
                       log |-> <<Log("info", "Connecting to Redis"),
                                 Log("error", "Unexpected error connecting to Redis")>>]
                 ELSE [client |-> c.client, log |-> <<Log("info", "Connecting to Redis")>>]

\* get_redis_storage(): the RedisStorage class, or None when no location
\* has one
get_redis_storage(environ) ==
    IF environ.storage_class = "available" THEN <<"RedisStorage">> ELSE <<>>

\* create_app from the return of get_redis_client to the end of the inner
\* try: redis_storage (<<>> for None) and the records logged
select_storage(redis_client, environ) ==
    IF redis_client = <<>>
    THEN [redis_storage |-> <<>>, log |-> <<Log("warning", "Could not connect to Redis")>>]
    ELSE IF get_redis_storage(environ) = <<>>
    THEN [redis_storage |-> <<>>,
          log |-> <<Log("error", "Could not import RedisStorage from any location")>>]
    ELSE IF environ.storage_from_client = "ok"
    THEN [redis_storage |-> <<"RedisStorage(client)">>,
          log |-> <<Log("info", "Using Redis storage for rate limiting")>>]
    ELSE IF environ.storage_from_client = "TypeError"
    THEN IF environ.storage_from_url = "ok"
         THEN [redis_storage |-> <<"RedisStorage(url)">>,
               log |-> <<Log("warning", "Redis storage initialization error"),
                         Log("info", "Using Redis storage for rate limiting with URL")>>]
         ELSE [redis_storage |-> <<>>,
               log |-> <<Log("warning", "Redis storage initialization error"),
                         Log("warning", "Failed to initialize Redis storage with URL")>>]
    ELSE [redis_storage |-> <<>>,
          log |-> <<Log("warning", "Could not initialize Redis storage for rate limiting"),
                    Log("warning", "Falling back to in-memory storage")>>]

\* the limit specs both Limiter(...) calls pass
default_limits == <<"200 per day", "50 per hour">>

\* create_app, lines 115-137: app.limiter (<<>> when the attribute is never
\* set) and the records logged
wire_limiter(redis_storage, environ) ==
    IF redis_storage # <<>>
    THEN IF environ.limiter_storage_kw = "ok"
         THEN [limiter |-> <<[storage |-> "redis", default_limits |-> default_limits]>>,
               log |-> <<>>]
         ELSE [limiter |-> <<>>,
               log |-> <<Log("warning", "Could not initialize rate limiting")>>]
    ELSE [limiter |-> <<[storage |-> "memory", default_limits |-> default_limits]>>,
          log |-> <<Log("warning", "Using in-memory storage for rate limiting")>>]

\* create_app once get_redis_client has returned redis_client
finish_limiter(a, redis_client, outcome) ==
    LET s == select_storage(redis_client, a.environ)
        w == wire_limiter(s.redis_storage, a.environ)
    IN  [a EXCEPT !.pc = "done", !.probe = outcome, !.limiter = w.limiter,
                  !.log = a.log \o s.log \o w.log]

\* create_app from line 75 to the point where client.ping() waits for the
\* server, or to line 137 when no ping is sent
start_limiter(a) ==
    IF a.environ.flask_limiter = "missing"
    THEN [a EXCEPT !.pc = "done",
                   !.log = Append(@, Log("warning", "Flask-Limiter not installed, rate limiting disabled"))]
    ELSE IF a.environ.redis = "missing"
    THEN LET w == wire_limiter(<<>>, a.environ)
         IN  [a EXCEPT !.pc = "done", !.probe = "import_error", !.limiter = w.limiter,
                       !.log = @ \o <<Log("warning", "Could not initialize Redis storage for rate limiting"),
                                      Log("warning", "Falling back to in-memory storage")>>
                                 \o w.log]
    ELSE LET g == get_redis_client_connect(environ_get(a.environ), a.environ)
         IN  IF g.client = <<>>
             THEN finish_limiter([a EXCEPT !.log = @ \o g.log], <<>>, "construct_raised")
             ELSE [a EXCEPT !.pc = "ping", !.client = g.client, !.log = @ \o g.log]

\* the state of the selector
Backend(a) ==
    IF a.pc # "done" THEN "Probing"
    ELSE IF a.limiter = <<>> THEN "Disabled"
    ELSE IF a.limiter[1].storage = "redis" THEN "Distributed"
    ELSE "LocalFallback"

(***************************************************************************)
(* SpecBackend: one process start, in every environment                    *)
(***************************************************************************)
Hosts == {"localhost", "cache"}

Environments ==
    [flask_limiter : {"installed", "missing"},
     redis : {"installed", "missing"},
     REDIS_URL : {<<>>, <<"redis://cache:6379/0">>, <<"cache:6379">>},
     servers : [Hosts -> {"up", "down", "silent"}],
     storage_class : {"available", "none"},
     storage_from_client : {"ok", "TypeError", "AttributeError"},
     storage_from_url : {"ok", "raises"},
     limiter_storage_kw : {"ok", "raises"}]

\* how often redis-py sends the ping again after a timeout
MaxPingRetries == 1

\* the app when create_app reaches the limiter block
FreshApp(e) ==
    [pc |-> "start", environ |-> e, probe |-> "none", client |-> <<>>,
     attempts |-> 0, limiter |-> <<>>, log |-> <<>>]

InitBackend ==
    /\ app \in {FreshApp(e) : e \in Environments}
    /\ limits = NoLimits
    /\ users = <<>>
    /\ now = 0
    /\ issued = <<>>
    /\ last = Idle
    /\ pw = None
    /\ bcrypt_long = "truncate"

\* create_app reaches the limiter block and runs until it waits or is done
StartLimiter ==
    /\ app.pc = "start"
    /\ app' = start_limiter(app)
    /\ UNCHANGED <<now, users, issued, last, pw, bcrypt_long, limits>>

\* the server answers the ping
PingAnswered ==
    /\ app.pc = "ping"
    /\ app.environ.servers[app.client[1].host] = "up"
    /\ app' = finish_limiter(
                 [app EXCEPT !.log = Append(@, Log("info", "Redis connection successful"))],
                 app.client, "ok")
    /\ UNCHANGED <<now, users, issued, last, pw, bcrypt_long, limits>>

\* the connection is refused: redis.ConnectionError
PingRefused ==
    /\ app.pc = "ping"
    /\ app.environ.servers[app.client[1].host] = "down"
    /\ app' = finish_limiter(
                 [app EXCEPT !.log = Append(@, Log("error", "Redis connection error"))],
                 <<>>, "ping_failed")
    /\ UNCHANGED <<now, users, issued, last, pw, bcrypt_long, limits>>

\* the socket timeout of the client fires: the ping is sent again, or
\* redis.TimeoutError leaves client.ping()
PingTimedOut ==
    /\ app.pc = "ping"
    /\ app.client[1].socket_timeout # <<>>
    /\ app' = IF app.client[1].retry_on_timeout /\ app.attempts < MaxPingRetries
              THEN [app EXCEPT !.attempts = @ + 1]
              ELSE finish_limiter(
                      [app EXCEPT !.log = Append(@, Log("error", "Redis connection error"))],
                      <<>>, "ping_failed")
    /\ UNCHANGED <<now, users, issued, last, pw, bcrypt_long, limits>>

\* the two lines of login that consult the limiter: current_app.limiter
\* raises AttributeError when create_app never set it; the Limiter is
\* constructed without swallow_errors and without an in-memory fallback, so
\* an error of the Redis storage leaves the check as an exception; the
\* in-process storage has no server to lose
limiter_check(limiter, store, within) ==
    IF limiter = <<>> THEN "error"
    ELSE IF limiter[1].storage = "redis" /\ store = "down" THEN "error"
    ELSE IF within THEN "admit" ELSE "reject"

\* POST /api/token once the app serves requests; store is the state of the
\* Redis server at that moment, within whether the client is under its
\* limit
LoginAfterStart(username, password, store, within) ==
    /\ app.pc = "done"
    /\ LET admission == limiter_check(app.limiter, store, within)
           r == login(username, password, admission, now, users, bcrypt_long)
       IN  last' = [op |-> "login", username |-> username, password |-> password,
                    admission |-> admission, store |-> store, at |-> now,
                    resp |-> r.resp, token |-> r.token, steps |-> r.steps]
    /\ UNCHANGED <<now, users, issued, pw, bcrypt_long, app, limits>>

NextBackend ==
    \/ StartLimiter
    \/ PingAnswered
    \/ PingRefused
    \/ PingTimedOut
    \/ \E store \in {"up", "down"}, within \in BOOLEAN :
          LoginAfterStart(Text("alice@example.org"), PwHorse, store, within)

SpecBackend == InitBackend /\ [][NextBackend]_vars

\* create_app runs on, and an armed socket timeout fires; nothing obliges
\* the Redis server to answer
SpecBackendFair ==
    SpecBackend /\ WF_vars(StartLimiter) /\ WF_vars(PingRefused) /\ WF_vars(PingTimedOut)

(***************************************************************************)
(* The admission check of login: limiter.limit(get_rate_limit(             *)
(* "auth.token")) against the storage create_app wired the Limiter to      *)
(***************************************************************************)
\* get_rate_limit("auth.token"): the ceiling of "5 per hour"
AuthTokenLimit == 5

\* an increment that writes back the count the caller read on arrival
incr_read_then_set(stored, seen) == seen + 1

\* RedisStorage.incr: the Redis server adds one to the counter of the key
\* and returns the new count in one step (INCRBY inside a script)
incr(stored, seen) == stored + 1

\* the fixed-window check: increment, then compare with the ceiling
allow(stored, seen, ceiling) ==
    LET count == incr(stored, seen)
    IN  [count |-> count, admitted |-> count <= ceiling]

(***************************************************************************)
(* SpecCounter: N concurrent logins of one client in one window, against   *)
(* the shared counter                                                      *)
(***************************************************************************)
MaxCallers == 7

\* an environment in which every step of the Redis path succeeds
GoodEnvironment ==
    [flask_limiter |-> "installed", redis |-> "installed",
     REDIS_URL |-> <<"redis://cache:6379/0">>,
     servers |-> [h \in Hosts |-> "up"],
     storage_class |-> "available", storage_from_client |-> "ok",
     storage_from_url |-> "ok", limiter_storage_kw |-> "ok"]

\* the app create_app leaves when the ping is answered in environment e
DistributedApp(e) ==
    LET a == start_limiter(FreshApp(e))
    IN  finish_limiter(
            [a EXCEPT !.log = Append(@, Log("info", "Redis connection successful"))],
            a.client, "ok")

\* the app create_app leaves when the connection is refused
LocalFallbackApp(e) ==
    LET a == start_limiter(FreshApp(e))
    IN  finish_limiter(
            [a EXCEPT !.log = Append(@, Log("error", "Redis connection error"))],
            <<>>, "ping_failed")

\* limits.count is the counter of (client key, window) in the store;
\* arrived[s] is the number of requests in flight that found the count s
\* when they reached the limiter; overtaken counts the checks made after
\* another request had moved the count on
InitCounter ==
    /\ app = DistributedApp(GoodEnvironment)
    /\ limits \in {[pc |-> "counting", callers |-> n, idle |-> n,
                    arrived |-> [s \in 0..n |-> 0],
                    count |-> 0, admitted |-> 0, rejected |-> 0, overtaken |-> 0] :
                     n \in (AuthTokenLimit + 1)..MaxCallers}
    /\ users = <<>>
    /\ now = 0
    /\ issued = <<>>
    /\ last = Idle
    /\ pw = None
    /\ bcrypt_long = "truncate"

\* a request reaches login
Arrive ==
    /\ limits.pc = "counting"
    /\ limits.idle > 0
    /\ limits' = [limits EXCEPT !.idle = @ - 1,
                                !.arrived[limits.count] = @ + 1]
    /\ UNCHANGED <<now, users, issued, last, pw, bcrypt_long, app>>

\* login of a request that found the count s: the admission check, then
\* the rest of the handler
AdmissionCheck(s, username, password) ==
    /\ limits.pc = "counting"
    /\ limits.arrived[s] > 0
    /\ LET a == allow(limits.count, s, AuthTokenLimit)
           admission == IF a.admitted THEN "admit" ELSE "reject"
           r == login(username, password, admission, now, users, bcrypt_long)
       IN  /\ limits' = [limits EXCEPT !.arrived[s] = @ - 1,
                                       !.count = a.count,
                                       !.admitted = @ + (IF a.admitted THEN 1 ELSE 0),
                                       !.rejected = @ + (IF a.admitted THEN 0 ELSE 1),
                                       !.overtaken = @ + (IF s # limits.count THEN 1 ELSE 0)]
           /\ last' = [op |-> "login", username |-> username, password |-> password,
                       admission |-> admission, at |-> now, resp |-> r.resp,
                       token |-> r.token, steps |-> r.steps]
    /\ UNCHANGED <<now, users, issued, pw, bcrypt_long, app>>

NextCounter ==
    \/ Arrive
    \/ \E s \in 0..MaxCallers : s \in DOMAIN limits.arrived
                                   /\ AdmissionCheck(s, Text("alice@example.org"), PwHorse)

SpecCounter == InitCounter /\ [][NextCounter]_vars

(***************************************************************************)
(* The default limits of the Limiter, applied to every request             *)
(***************************************************************************)
\* a limit string as the limits library parses it: the ceiling and the
\* length of the window in hours
parse(limit) ==
    CASE limit = "200 per day" -> [amount |-> 200, hours |-> 24]
      [] limit = "50 per hour" -> [amount |-> 50, hours |-> 1]

WindowTicks(limit) == Minutes(60 * parse(limit).hours)

\* a counter key that was never written, or has expired
NoCounter == [count |-> 0, expires |-> 0]

\* the value of a counter at time t: an expired key is gone
Count(c, t) == IF t >= c.expires THEN 0 ELSE c.count

\* storage.incr(key, expiry): the first hit of a window sets the expiry
hit(c, limit, t) ==
    IF t >= c.expires
    THEN [count |-> 1, expires |-> t + WindowTicks(limit)]
    ELSE [c EXCEPT !.count = @ + 1]

\* the order in which the limits are evaluated: as listed, or sorted by
\* window (shortest first), depending on the Flask-Limiter release
EvaluationOrder(specs, order) ==
    IF order = "as_given" THEN <<1, 2>> ELSE <<2, 1>>

\* the evaluation that checks the first limit of the order only
RECURSIVE evaluate_limits_first_only(_, _, _, _)
evaluate_limits_first_only(specs, todo, ctrs, t) ==
    IF todo = <<>> THEN [admitted |-> TRUE, counters |-> ctrs]
    ELSE LET i == Head(todo)
             c == hit(ctrs[i], specs[i], t)
             after == [ctrs EXCEPT ![i] = c]
         IN  [admitted |-> c.count <= parse(specs[i]).amount, counters |-> after]

\* the limits are hit one after the other; the first one exceeded rejects
\* the request and ends the evaluation
RECURSIVE evaluate_limits(_, _, _, _)
evaluate_limits(specs, todo, ctrs, t) ==
    IF todo = <<>> THEN [admitted |-> TRUE, counters |-> ctrs]
    ELSE LET i == Head(todo)
             c == hit(ctrs[i], specs[i], t)
             after == [ctrs EXCEPT ![i] = c]
         IN  IF c.count > parse(specs[i]).amount
             THEN [admitted |-> FALSE, counters |-> after]
             ELSE evaluate_limits(specs, Tail(todo), after, t)

(***************************************************************************)
(* SpecLimits: the requests of one client under the default limits, next   *)
(* to a second client's counters, in both backend states                   *)
(***************************************************************************)
Busy == "10.0.0.1"
Quiet == "10.0.0.2"
Addresses == {Busy, Quiet}

MaxHours == 4
MaxOver == 1

\* the counters of a client that has not been seen, and of one that used
\* up its hour at time 0
Unseen == [i \in 1..Len(default_limits) |-> NoCounter]
Exhausted ==
    [i \in 1..Len(default_limits) |->
        [count |-> parse(default_limits[2]).amount,
         expires |-> WindowTicks(default_limits[i])]]

InitLimits ==
    /\ app \in {DistributedApp(GoodEnvironment), LocalFallbackApp(GoodEnvironment)}
    /\ limits \in {[pc |-> "serving", order |-> o,
                    counters |-> [a \in Addresses |-> IF a = Busy THEN Unseen ELSE q]] :
                     o \in {"as_given", "by_window"}, q \in {Unseen, Exhausted}}
    /\ users = <<>>
    /\ now = 0
    /\ issued = <<>>
    /\ last = Idle
    /\ pw = None
    /\ bcrypt_long = "truncate"

\* a request from addr passes the limiter's before_request check
Request(addr) ==
    /\ limits.pc = "serving"
    /\ \A i \in 1..Len(app.limiter[1].default_limits) :
          Count(limits.counters[addr][i], now)
             < parse(app.limiter[1].default_limits[i]).amount + MaxOver
    /\ LET specs == app.limiter[1].default_limits
           r == evaluate_limits(specs, EvaluationOrder(specs, limits.order),
                                limits.counters[addr], now)
       IN  /\ limits' = [limits EXCEPT !.counters[addr] = r.counters]
           /\ last' = [op |-> "request", addr |-> addr, admitted |-> r.admitted,
                       before |-> limits.counters, at |-> now]
    /\ UNCHANGED <<now, users, issued, pw, bcrypt_long, app>>

\* an hour passes
AdvanceHour ==
    /\ limits.pc = "serving"
    /\ now < MaxHours * Minutes(60)
    /\ now' = now + Minutes(60)
    /\ last' = Idle
    /\ UNCHANGED <<users, issued, pw, bcrypt_long, app, limits>>

NextLimits ==
    \/ \E addr \in {Busy} : Request(addr)
    \/ AdvanceHour

SpecLimits == InitLimits /\ [][NextLimits]_vars

(***************************************************************************)
(* SpecSession: tokens held by a client while the account and the process  *)
(* go on: logins, password changes, the clock, and restarts of the process *)
(* with another SECRET_KEY                                                 *)
(***************************************************************************)
MaxRotations == 1

\* the keys an operator can configure
Secrets == {"rotated-secret-1", "rotated-secret-2"}

\* the process as deployed: no SECRET_KEY configured
Serving == [pc |-> "serving", jwt_secret_key |-> <<>>, used |-> {}, rotations |-> 0]

InitSession ==
    /\ users = <<Alice>>
    /\ app = Serving
    /\ now = 0
    /\ issued = <<>>
    /\ last = Idle
    /\ pw = None
    /\ bcrypt_long = "truncate"
    /\ limits = NoLimits

\* POST /api/token; the client keeps the first token it was given and the
\* latest one
SessionLogin(username, password) ==
    LET r == login(username, password, "admit", now, users, bcrypt_long)
        rec == [token |-> r.token[1], sub |-> r.token[1].payload.sub,
                delta |-> <<Minutes(30)>>, at |-> now]
    IN  /\ last' = [op |-> "login", username |-> username, password |-> password,
                    admission |-> "admit", at |-> now, resp |-> r.resp,
                    token |-> r.token, steps |-> r.steps]
        /\ issued' = IF r.token = <<>> THEN issued
                     ELSE IF issued = <<>> THEN <<rec>>
                     ELSE <<issued[1], rec>>
        /\ UNCHANGED <<now, users, pw, bcrypt_long, app, limits>>

\* GET /api/users/me with a token the client holds
SessionRequest(i) ==
    /\ i \in 1..Len(issued)
    /\ GetCurrentUser(Header("Bearer ", <<issued[i].token>>))

\* the process is restarted with a SECRET_KEY it has not had before
RotateSecret(key) ==
    /\ app.rotations < MaxRotations
    /\ key \notin app.used
    /\ key # SECRET_KEY
    /\ app' = [app EXCEPT !.jwt_secret_key = <<key>>,
                          !.used = @ \cup {SECRET_KEY, key},
                          !.rotations = @ + 1]
    /\ last' = [op |-> "restart", key |-> key]
    /\ UNCHANGED <<now, users, issued, pw, bcrypt_long, limits>>

NextSession ==
    \/ \E p \in {PwHorse, PwSunny} : SessionLogin(Text("alice@example.org"), p)
    \/ \E p \in {PwSunny, PwWeak} : SetPassword(1, p, "salt1")
    \/ \E i \in 1..2 : SessionRequest(i)
    \/ \E key \in Secrets : RotateSecret(key)
    \/ Tick
    \/ Elapse

SpecSession == InitSession /\ [][NextSession]_vars

(***************************************************************************)
(* SpecRace: register requests handled concurrently.  A request reads the  *)
(* table for its existence checks in one step and commits in a later one;  *)
(* the table enforces the unique constraints of the columns at the commit. *)
(***************************************************************************)
MaxRequests == 3

\* a commit that inserts whatever the table holds
commit_without_unique(table, row) ==
    [exc |-> "", table |-> Append(table, [row EXCEPT !.id = Len(table) + 1])]

\* db.session.add(new_user); db.session.commit(): username and email are
\* unique=True, so the INSERT of a second row with either raises
commit(table, row) ==
    IF \E i \in 1..Len(table) :
           table[i].username = row.username \/ table[i].email = row.email
    THEN [exc |-> "IntegrityError", table |-> table]
    ELSE [exc |-> "", table |-> Append(table, [row EXCEPT !.id = Len(table) + 1])]

\* the rest of register() from db.session.add on, for the user it built
register_commit(row, table) ==
    LET c == commit(table, row)
    IN  IF c.exc # ""
        THEN [resp |-> [Reply(500, "Server error: ") EXCEPT !.body = <<c.exc>>],
              table |-> c.table, details |-> TRUE]
        ELSE [resp |-> [Reply(201, "") EXCEPT
                           !.body = <<to_dict(c.table[Len(c.table)])>>],
              table |-> c.table, details |-> FALSE]

RaceBodies ==
    {<<[username |-> Text(u), email |-> Text(e), password |-> PwHorse]>> :
        u \in Usernames, e \in Emails}

NotArrived == [pc |-> "idle"]

\* two requests name the same email or the same username
Collide(b, c) ==
    b[1].email = c[1].email \/ b[1].username = c[1].username

InitRace ==
    /\ users = <<>>
    /\ app = [pc |-> "handling", requests |-> [r \in 1..MaxRequests |-> NotArrived]]
    /\ now = 0
    /\ issued = <<>>
    /\ last = Idle
    /\ pw = None
    /\ bcrypt_long = "truncate"
    /\ limits = NoLimits

\* register() up to and including set_password: the request is answered
\* here when a check fails, else it holds the user it is about to add
RegisterCheck(r, body, salt) ==
    /\ app.pc = "handling"
    /\ app.requests[r].pc = "idle"
    /\ LET res == register(body, salt, now, users, bcrypt_long)
           raced == \E o \in 1..MaxRequests :
                       /\ app.requests[o].pc = "checked"
                       /\ Collide(app.requests[o].body, body)
       IN  IF res.resp.status = 201
           THEN /\ app' = [app EXCEPT !.requests[r] =
                              [pc |-> "checked", body |-> body,
                               new_user |-> res.table[Len(res.table)],
                               raced |-> raced]]
                /\ last' = [op |-> "register_check", request |-> r, body |-> body]
           ELSE /\ app' = [app EXCEPT !.requests[r] =
                              [pc |-> "done", body |-> body, resp |-> res.resp,
                               raced |-> FALSE]]
                /\ last' = [op |-> "register", request |-> r, body |-> body,
                            resp |-> res.resp, details |-> res.details,
                            before |-> users]
    /\ UNCHANGED <<now, users, issued, pw, bcrypt_long, limits>>

\* register() from db.session.add to the response
RegisterCommit(r) ==
    /\ app.pc = "handling"
    /\ app.requests[r].pc = "checked"
    /\ LET res == register_commit(app.requests[r].new_user, users)
           raced == \/ app.requests[r].raced
                    \/ \E o \in 1..MaxRequests :
                          /\ app.requests[o].pc = "checked" /\ o # r
                          /\ Collide(app.requests[o].body, app.requests[r].body)
       IN  /\ users' = res.table
           /\ app' = [app EXCEPT !.requests[r] =
                         [pc |-> "done", body |-> app.requests[r].body,
                          resp |-> res.resp, raced |-> raced]]
           /\ last' = [op |-> "register", request |-> r,
                       body |-> app.requests[r].body, resp |-> res.resp,
                       details |-> res.details, before |-> users]
    /\ UNCHANGED <<now, issued, pw, bcrypt_long, limits>>

NextRace ==
    \/ \E r \in 1..MaxRequests, b \in RaceBodies : RegisterCheck(r, b, "salt1")
    \/ \E r \in 1..MaxRequests : RegisterCommit(r)

SpecRace == InitRace /\ [][NextRace]_vars

(***************************************************************************)
(* The models package (api/models/__init__.py), the registry the model     *)
(* modules decorate their classes with, and the mapper reset of create_app *)
(***************************************************************************)
\* the model modules in the order import_all_models names them
ModelModules == <<"user", "transcript", "translation", "audit_log">>

\* the name a module registers its class under
EntityName(mod) ==
    CASE mod = "user"        -> "User"
      [] mod = "transcript"  -> "Transcription"
      [] mod = "translation" -> "Translation"
      [] mod = "audit_log"   -> "AuditLog"

EntityNames == {EntityName(ModelModules[i]) : i \in 1..Len(ModelModules)}

\* a registry in which the latest definition replaces the stored one
ModelRegistry_register_last_wins(registry, name, definition) ==
    [exc |-> "", value |-> definition,
     registry |-> [registry EXCEPT ![name] = <<definition>>]]

\* ModelRegistry.register(name)(definition): the stored definition wins
ModelRegistry_register(registry, name, definition) ==
    IF registry[name] # <<>>
    THEN [exc |-> "", value |-> registry[name][1], registry |-> registry]
    ELSE [exc |-> "", value |-> definition,
          registry |-> [registry EXCEPT ![name] = <<definition>>]]

\* the class object the n-th execution of a module body creates
ClassOf(mod, n) == <<"class", mod, n>>

\* the body of a model module runs: the class statement defines and maps
\* the class, then the decorator hands it to the registry
exec_module(m, mod) ==
    LET n == m.defined[mod] + 1
    IN  [m EXCEPT !.defined[mod] = n,
                  !.mappers[mod] = @ + 1,
                  !.registry = ModelRegistry_register(@, EntityName(mod), ClassOf(mod, n)).registry,
                  !.sys_modules = @ \cup {mod}]

\* `from . import <mod>`: a module already in sys.modules is not run again;
\* fails is the set of modules whose body raises at this moment
import_module(m, mod, fails) ==
    IF mod \in m.sys_modules THEN [exc |-> "", m |-> m]
    ELSE IF mod \in fails THEN [exc |-> "ImportError", m |-> m]
    ELSE [exc |-> "", m |-> exec_module(m, mod)]

\* the blocks of import_all_models with the mark set before the import
RECURSIVE import_models_mark_first(_, _, _)
import_models_mark_first(m, todo, fails) ==
    IF todo = <<>> THEN [exc |-> "", value |-> <<TRUE>>, m |-> m]
    ELSE LET mod == Head(todo) IN
         IF mod \in m.imported THEN import_models_mark_first(m, Tail(todo), fails)
         ELSE LET marked == [m EXCEPT !.imported = @ \cup {mod}]
                  r == import_module(marked, mod, fails)
              IN  IF r.exc # "" THEN [exc |-> r.exc, value |-> <<>>, m |-> r.m]
                  ELSE import_models_mark_first(
                          [r.m EXCEPT !.imports = Append(@, mod)], Tail(todo), fails)

\* the blocks of import_all_models for the modules of todo, in order: a
\* module not yet marked is imported and then marked; an import that raises
\* leaves the function
RECURSIVE import_models(_, _, _)
import_models(m, todo, fails) ==
    IF todo = <<>> THEN [exc |-> "", value |-> <<TRUE>>, m |-> m]
    ELSE LET mod == Head(todo) IN
         IF mod \in m.imported THEN import_models(m, Tail(todo), fails)
         ELSE LET r == import_module(m, mod, fails)
              IN  IF r.exc # "" THEN [exc |-> r.exc, value |-> <<>>, m |-> r.m]
                  ELSE import_models(
                          [r.m EXCEPT !.imported = @ \cup {mod},
                                      !.imports = Append(@, mod)],
                          Tail(todo), fails)

import_all_models(m, fails) == import_models(m, ModelModules, fails)

\* db.clear_mappers(): sqlalchemy.orm.clear_mappers() removes every mapper
clear_mappers(m) == [m EXCEPT !.mappers = [mod \in DOMAIN @ |-> 0]]

\* reset_sqlalchemy(), which create_app calls first
reset_sqlalchemy(m) == clear_mappers(m)

\* create_app as far as the models go: the reset, then the import of the
\* auth routes, which import the user model; an import error is logged
create_app_models(m, fails) ==
    import_module(reset_sqlalchemy(m), "user", fails).m

(***************************************************************************)
(* SpecModels: initialization passes in one process                        *)
(***************************************************************************)
MaxPasses == 3

\* two definitions a caller hands to the registry
defA == ClassOf("note", 1)
defB == ClassOf("note", 2)
Definitions == {defA, defB}
RegistryNames == EntityNames \cup {"Note"}

\* the process before anything of the models package has run
FreshProcess ==
    [pc |-> "models",
     registry |-> [n \in RegistryNames |-> <<>>],
     imported |-> {},
     imports |-> <<>>,
     sys_modules |-> {},
     mappers |-> [i \in Range(ModelModules) |-> 0],
     defined |-> [i \in Range(ModelModules) |-> 0],
     passes |-> 0]

InitModels ==
    /\ app = FreshProcess
    /\ limits = NoLimits
    /\ users = <<>>
    /\ now = 0
    /\ issued = <<>>
    /\ last = Idle
    /\ pw = None
    /\ bcrypt_long = "truncate"

\* a call of import_all_models()
ImportAllModels(fails) ==
    /\ app.pc = "models"
    /\ app.passes < MaxPasses
    /\ LET r == import_all_models(app, fails)
       IN  /\ app' = [r.m EXCEPT !.passes = @ + 1]
           /\ last' = [op |-> "import_all_models", fails |-> fails, exc |-> r.exc,
                       value |-> r.value, before |-> app]
    /\ UNCHANGED <<now, users, issued, pw, bcrypt_long, limits>>

\* a call of create_app()
CreateApp(fails) ==
    /\ app.pc = "models"
    /\ app.passes < MaxPasses
    /\ app' = [create_app_models(app, fails) EXCEPT !.passes = @ + 1]
    /\ last' = [op |-> "create_app", fails |-> fails, before |-> app]
    /\ UNCHANGED <<now, users, issued, pw, bcrypt_long, limits>>

\* some module decorates a definition with ModelRegistry.register(name)
RegisterEntity(name, definition) ==
    /\ app.pc = "models"
    /\ LET r == ModelRegistry_register(app.registry, name, definition)
       IN  /\ app' = [app EXCEPT !.registry = r.registry]
           /\ last' = [op |-> "register", name |-> name, definition |-> definition,
                       exc |-> r.exc, value |-> r.value, before |-> app]
    /\ UNCHANGED <<now, users, issued, pw, bcrypt_long, limits>>

NextModels ==
    \/ \E fails \in SUBSET Range(ModelModules) : ImportAllModels(fails)
    \/ \E fails \in SUBSET {"user"} : CreateApp(fails)
    \/ \E name \in {"User", "Note"}, d \in Definitions : RegisterEntity(name, d)

SpecModels == InitModels /\ [][NextModels]_vars

(***************************************************************************)
(* Claims about validate_password (SpecPolicy)                             *)
(***************************************************************************)
\* the character classes a string lacks, read off the string itself
Lacking(s) ==
    {c \in {"uppercase letter", "lowercase letter", "digit", "special character"} :
        ~ \E i \in 1..Len(s) :
            CASE c = "uppercase letter" -> s[i] \in UpperChars
              [] c = "lowercase letter" -> s[i] \in LowerChars
              [] c = "digit" -> s[i] \in DigitChars
              [] OTHER -> s[i] \notin (UpperChars \cup LowerChars \cup DigitChars)}

Validated == last.op = "validate_password" /\ last.password.t = "str"

WeakInput == Len(last.password.v) < 12 \/ Lacking(last.password.v) # {}

\* C9 (as claimed): every password that is shorter than 12 characters or
\* lacks a character class is rejected by validate_password with a reason
\* that names each class it lacks.
C9_ReasonNamesMissingClasses ==
    (Validated /\ WeakInput) =>
        /\ last.result.exc = ""
        /\ ~last.result.ok
        /\ Lacking(last.password.v) \subseteq Range(last.result.missing)

\* C9 (amended): every such password is rejected; the reason names exactly
\* the lacking classes when the password has at least 12 characters, and is
\* the length reason (the empty reason for the empty string), naming no
\* class, when it is shorter.
C9_RejectedWithFirstReason ==
    (Validated /\ WeakInput) =>
        /\ last.result.exc = ""
        /\ ~last.result.ok
        /\ IF last.password.v = <<>>
           THEN last.result.message = MsgEmpty /\ last.result.missing = <<>>
           ELSE IF Len(last.password.v) < 12
           THEN last.result.message = MsgLength /\ last.result.missing = <<>>
           ELSE /\ last.result.message = MsgMissing
                /\ Range(last.result.missing) = Lacking(last.password.v)

C9_Witness ==
    /\ Validated
    /\ Len(last.password.v) >= 12
    /\ Cardinality(Lacking(last.password.v)) >= 2
    /\ last.result.message = MsgMissing
    /\ Len(last.result.missing) >= 2

\* C10: validate_password rejects every password that equals, ignoring
\* letter case, an entry of the denylist as written in the code.
C10_DenylistRejected ==
    (Validated /\ \E e \in common_passwords : Lower(last.password.v) = Lower(e)) =>
        (last.result.exc = "" /\ ~last.result.ok)

C10_Witness ==
    /\ Validated
    /\ last.password.v \notin common_passwords
    /\ Lower(last.password.v) = Lower(<<"P","@","s","s","w","o","r","d","1">>)
    /\ ~last.result.ok

\* validate_password without the denylist step
validate_password_no_denylist(password) ==
    IF ~Truthy(password) THEN Verdict(FALSE, MsgEmpty, <<>>)
    ELSE IF password.t # "str" THEN Raised("TypeError")
    ELSE IF too_short(password.v) THEN Verdict(FALSE, MsgLength, <<>>)
    ELSE IF missing_classes(password.v) # <<>>
         THEN Verdict(FALSE, MsgMissing, missing_classes(password.v))
    ELSE Verdict(TRUE, MsgOk, <<>>)

\* C29: every entry of the denylist is shorter than 12 characters, and for
\* every input validate_password returns what it returns without the
\* denylist step; the 'too common' reason is never returned.
C29_DenylistNeverDecides ==
    /\ \A e \in common_passwords : Len(e) < MinPasswordLength
    /\ last.op = "validate_password" =>
          /\ last.result = validate_password_no_denylist(last.password)
          /\ last.result.message # MsgCommon

\* a password that reaches the denylist step (twelve characters or more,
\* all four classes, beginning with a denylist entry) and is accepted
C29_Witness ==
    /\ last.op = "validate_password"
    /\ last.password.t = "str"
    /\ Len(last.password.v) >= MinPasswordLength
    /\ missing_classes(last.password.v) = <<>>
    /\ IsPrefix(<<"P","@","s","s","w","o","r","d","1">>, last.password.v)
    /\ last.result = Verdict(TRUE, MsgOk, <<>>)

\* a denylist entry itself, refused for its length
C29_WitnessEntry ==
    /\ last.op = "validate_password"
    /\ last.password.t = "str"
    /\ Lower(last.password.v) \in common_passwords
    /\ last.result = Verdict(FALSE, MsgLength, <<>>)

(***************************************************************************)
(* Claims about set_password and check_password (SpecRecord)               *)
(***************************************************************************)
SetSucceeded == last.op = "set_password" /\ last.exc = ""

\* C6 (as claimed): immediately after a successful set_password(p) on a
\* record, check_password(p) is true and check_password(q) is false for
\* every password q different from p, whatever was set before.
C6_OnlyTheSetPasswordVerifies ==
    SetSucceeded =>
        \A q \in RecordPasswords :
            check_password(users[1], q, bcrypt_long)
                = [exc |-> "", value |-> (q = last.password)]

PolicyRejects(p) == validate_password(p).exc # "" \/ ~validate_password(p).ok

\* C7: set_password with a password that fails validate_password raises an
\* error to its caller and leaves hashed_password, password_changed_at,
\* password_reset_token and password_reset_expires as they were before.
C7_InvalidLeavesRecordUnchanged ==
    (last.op = "set_password" /\ PolicyRejects(last.password)) =>
        /\ last.exc \in {"ValueError", "TypeError"}
        /\ users[1].hashed_password = last.before.hashed_password
        /\ users[1].password_changed_at = last.before.password_changed_at
        /\ users[1].password_reset_token = last.before.password_reset_token
        /\ users[1].password_reset_expires = last.before.password_reset_expires

C7_Witness ==
    /\ last.op = "set_password"
    /\ last.password = PwWeak
    /\ last.exc = "ValueError"
    /\ last.message = MsgLength
    /\ last.before.password_reset_token # <<>>
    /\ users[1].password_reset_token # <<>>
    /\ now > 0

\* C8: check_password never raises; it returns a boolean, and returns false
\* for an empty password, for a record with no stored secret, and whenever
\* the verification inside fails with an error (a stored secret that is not
\* a bcrypt string, a password that is not a str).
C8_CheckPasswordNeverRaises ==
    last.op = "check_password" =>
        /\ last.result.exc = ""
        /\ last.result.value \in BOOLEAN
        /\ ~Truthy(last.password) => ~last.result.value
        /\ ~SecretTruthy(users[1].hashed_password) => ~last.result.value
        /\ users[1].hashed_password.fmt # "bcrypt" => ~last.result.value
        /\ last.password.t # "str" => ~last.result.value

C8_Witness ==
    /\ last.op = "check_password"
    /\ last.password = PwHorse
    /\ users[1].hashed_password.fmt = "text"
    /\ users[1].hashed_password.digest # <<>>
    /\ last.result = [exc |-> "", value |-> FALSE]

\* C11: after a successful set_password the stored secret is a bcrypt hash
\* of the new password (cost 12, a salt of gensalt) and not the password's
\* own text, it verifies the new password, password_changed_at is the time
\* of the call, and the reset token and its expiry are both cleared.
C11_SuccessStoresFreshHash ==
    (last.op = "set_password" /\ last.exc = "") =>
        LET u == users[1] IN
        /\ u.hashed_password.fmt = "bcrypt"
        /\ u.hashed_password.cost = BcryptRounds
        /\ u.hashed_password.salt \in Salts
        /\ u.hashed_password # TextSecret(last.password.v)
        /\ checkpw(Utf8(last.password.v), u.hashed_password, bcrypt_long)
              = [exc |-> "", value |-> TRUE]
        /\ u.password_changed_at = <<last.at>>
        /\ u.password_reset_token = <<>>
        /\ u.password_reset_expires = <<>>

\* a password change at a later time, for a record that held an earlier
\* bcrypt secret and a pending reset token
C11_Witness ==
    /\ last.op = "set_password" /\ last.exc = ""
    /\ last.at > 0
    /\ last.before.hashed_password.fmt = "bcrypt"
    /\ last.before.hashed_password # users[1].hashed_password
    /\ last.before.password_reset_token # <<>>
    /\ last.before.password_reset_expires # <<>>
    /\ users[1].password_changed_at = <<last.at>>

(***************************************************************************)
(* Claims about the token service and token_required (SpecToken)           *)
(***************************************************************************)
Requested == last.op = "get_current_user"

\* the request carried 'Bearer ' followed by a non-empty token
BearerToken ==
    /\ Requested
    /\ last.header # <<>>
    /\ last.header[1].prefix = "Bearer "
    /\ last.header[1].rest # <<>>

Sent == last.header[1].rest[1]

\* the signature of x is the one the configured secret and algorithm give
SignatureVerifies(x) ==
    /\ x.wf
    /\ x.alg = ALGORITHM
    /\ x.sig = <<[key |-> SECRET_KEY, alg |-> ALGORITHM, payload |-> x.payload]>>

\* C1: a token whose signature does not verify under the configured secret
\* and algorithm, or that is malformed, is answered 401 'Invalid token'; the
\* wrapped handler does not run and no user is set.
C1_BadTokenIsInvalid ==
    (BearerToken /\ ~SignatureVerifies(Sent)) =>
        /\ last.resp.status = 401
        /\ last.resp.message = "Invalid token"
        /\ ~last.resp.ran
        /\ last.resp.current_user = <<>>
        /\ last.resp.body = <<>>

\* a forged token that names a registered user and has also expired
C1_Witness ==
    /\ BearerToken
    /\ Sent.wf
    /\ Sent.alg = ALGORITHM
    /\ Sent.payload.sub = <<"alice">>
    /\ Sent.sig # <<[key |-> SECRET_KEY, alg |-> ALGORITHM, payload |-> Sent.payload]>>
    /\ Sent.payload.exp * TicksPerSecond <= last.at
    /\ last.resp.message = "Invalid token"

\* the lifetime a token was issued with: the timedelta given, the default
\* when none was given
LifetimeOf(r) ==
    IF r.delta = <<>> THEN ACCESS_TOKEN_EXPIRE_MINUTES * 60 * TicksPerSecond
    ELSE r.delta[1]

\* the last request carried the token that create_access_token last returned
SentIssued == BearerToken /\ issued # <<>> /\ Sent = issued[1].token

\* C2 (as claimed): a token issued for a subject with lifetime L and
\* checked later than its issue time + L is answered 401 'Token has
\* expired': it is neither admitted nor reported as invalid.
C2_ExpiredAfterLifetime ==
    (SentIssued /\ issued[1].sub # <<>> /\ last.at > issued[1].at + LifetimeOf(issued[1])) =>
        /\ last.resp.status = 401
        /\ last.resp.message = "Token has expired"
        /\ ~last.resp.ran

\* C3: a token made by create_access_token({'sub': s}, lifetime) with a
\* lifetime > 0 carries as expiry the second issue time + lifetime falls in,
\* and at every time before that expiry it decodes, under the same secret
\* and algorithm, to exactly the subject s; token_required then sets the
\* user of that name, when there is one.
C3_RoundTrip ==
    \A i \in 1..Len(issued) :
        LET r == issued[i]
            d == jwt_decode(r.token, SECRET_KEY, {ALGORITHM}, now)
            resp == token_required(Header("Bearer ", <<r.token>>), now, users)
        IN  (r.sub # <<>> /\ r.delta # <<>> /\ r.delta[1] > 0) =>
              /\ r.token.payload.exp = (r.at + r.delta[1]) \div TicksPerSecond
              /\ now < r.token.payload.exp * TicksPerSecond =>
                    /\ d.exc = ""
                    /\ d.payload.sub = r.sub
                    /\ (\E k \in 1..Len(users) : users[k].username = r.sub[1]) =>
                          /\ resp.ran
                          /\ resp.current_user[1].username = r.sub[1]

\* the token was sent back later than it was issued, before its expiry
C3_Witness ==
    /\ SentIssued
    /\ issued[1].sub = <<"alice">>
    /\ issued[1].delta # <<>>
    /\ issued[1].delta[1] > 0
    /\ last.at > issued[1].at
    /\ last.at = now
    /\ now < Sent.payload.exp * TicksPerSecond
    /\ last.resp.status = 200
    /\ last.resp.current_user[1].username = "alice"

\* C4: the handler behind token_required runs only for a request whose
\* bearer token verified (signature valid, not expired at the time of the
\* request), and then g.current_user is a user of the table whose username
\* is the token's sub; without an Authorization header, or with one that
\* does not start with 'Bearer ', the handler does not run.
C4_HandlerOnlyBehindVerifiedToken ==
    Requested =>
        /\ last.resp.ran =>
              /\ BearerToken
              /\ SignatureVerifies(Sent)
              /\ last.at < Sent.payload.exp * TicksPerSecond
              /\ last.resp.current_user # <<>>
              /\ \E k \in 1..Len(users) : users[k] = last.resp.current_user[1]
              /\ <<last.resp.current_user[1].username>> = Sent.payload.sub
        /\ (last.header = <<>> \/ last.header[1].prefix # "Bearer ") => ~last.resp.ran
        /\ last.resp.ran <=> last.resp.status = 200

C4_Witness ==
    /\ BearerToken
    /\ last.resp.ran
    /\ last.resp.status = 200
    /\ last.resp.current_user = <<users[1]>>

\* a request whose header starts with 'bearer ' was turned away
C4_WitnessNoBearer ==
    /\ Requested
    /\ last.header # <<>>
    /\ last.header[1].prefix = "bearer "
    /\ last.resp.message = "Token is missing"

(***************************************************************************)
(* Claims about the login route (Spec)                                     *)
(***************************************************************************)
\* C5: in login the admission check of the limiter comes first, password
\* verification second and token issuance last; an access token is issued
\* only in a request that the limiter admitted and whose password verified
\* against the stored secret of an existing user (the one the token names).
C5_TokenOnlyAfterAdmissionAndPassword ==
    last.op = "login" =>
        /\ last.steps # <<>> /\ last.steps[1] = "limiter"
        /\ last.resp.status = 200 <=> last.token # <<>>
        /\ last.token # <<>> =>
              /\ last.admission = "admit"
              /\ last.steps = <<"limiter", "check_password", "create_access_token">>
              /\ last.username.t = "str"
              /\ \E k \in 1..Len(users) :
                    /\ users[k].email = last.username.v[1]
                    /\ check_password(users[k], last.password, bcrypt_long)
                         = [exc |-> "", value |-> TRUE]
                    /\ last.token[1].payload.sub = <<users[k].username>>
        /\ last.admission # "admit" => last.steps = <<"limiter">>

C5_Witness ==
    /\ last.op = "login"
    /\ last.admission = "admit"
    /\ last.password = PwHorse
    /\ last.resp.status = 200
    /\ last.token # <<>>
    /\ last.token[1].payload.sub = <<"bob">>
    /\ issued # <<>> /\ issued[1].token = last.token[1]

\* a login with a wrong password for a registered user was refused
C5_WitnessRefused ==
    /\ last.op = "login"
    /\ last.admission = "admit"
    /\ last.password = PwSunny
    /\ \E k \in 1..Len(users) : users[k].email = last.username.v[1]
    /\ last.resp.status = 401
    /\ last.token = <<>>

\* a step of the login route
LoginStep ==
    \E u \in LoginNames, p \in LoginPasswords, a \in Admissions : Login(u, p, a)

\* C12 (as claimed): a login whose password verification fails adds one to
\* the user's login_attempts; a successful login sets login_attempts to 0
\* and last_login_at to the time of the login.
C12_CounterFollowsLogins ==
    [][LoginStep =>
        \A k \in 1..Len(users) :
            (/\ Len(last'.steps) >= 2
             /\ users[k].email = last'.username.v[1]) =>
                IF last'.resp.status = 200
                THEN /\ users'[k].login_attempts = <<0>>
                     /\ users'[k].last_login_at = <<now>>
                ELSE users'[k].login_attempts
                        = <<users[k].login_attempts[1] + 1>>]_vars

\* the emails and passwords a prober can send: registered or not, a str
\* of any kind, a JSON number, nothing
ProbeEmails == Emails \cup {"nobody@example.org"}
ProbePasswords ==
    LoginPasswords \cup {PwWeak, PwLongA, Num(<<"1", "2", "3", "4">>), None}

\* C13: for every password and every answer of the limiter, login answers
\* an email with no user record with the same status and message as an
\* email of an existing user whose password this is not.
C13_NoAccountEnumeration ==
    \A e1 \in ProbeEmails, e2 \in ProbeEmails, p \in ProbePasswords, a \in Admissions :
        (/\ ByEmail(users, e1) = <<>>
         /\ ByEmail(users, e2) # <<>>
         /\ ~check_password(ByEmail(users, e2)[1], p, bcrypt_long).value) =>
            LET r1 == login(Text(e1), p, a, now, users, bcrypt_long).resp
                r2 == login(Text(e2), p, a, now, users, bcrypt_long).resp
            IN  /\ r1.status = r2.status
                /\ r1.message = r2.message

\* an admitted login for an email without a record was refused while a
\* registered user exists for whom the same password is wrong
C13_Witness ==
    /\ last.op = "login" /\ last.admission = "admit"
    /\ last.username = Text("bob@example.org")
    /\ ByEmail(users, "bob@example.org") = <<>>
    /\ last.password = PwSunny
    /\ last.resp.status = 401
    /\ ByEmail(users, "alice@example.org") # <<>>
    /\ login(Text("alice@example.org"), PwSunny, "admit", now, users, bcrypt_long).resp
          = last.resp

(***************************************************************************)
(* Claims about the rate-limit backend selection (SpecBackend)             *)
(***************************************************************************)
Selected == app.pc = "done"

Warned == \E i \in 1..Len(app.log) : app.log[i].level = "warning"

\* C14 (as claimed): create_app leaves the selection in Distributed or in
\* LocalFallback and in no other state (app.limiter is always set), and
\* the state reached does not change afterwards.
C14_TwoTerminalStates ==
    /\ [](Selected => Backend(app) \in {"Distributed", "LocalFallback"})
    /\ [][Selected => app' = app]_vars

\* C15 (as claimed): when building the Redis client raised, the ping
\* failed, or REDIS_URL is not set, the selection ends in LocalFallback with
\* the limiter on the in-process store and a warning in the log.
C15_FailureEndsInLocalFallback ==
    (/\ Selected
     /\ \/ app.probe \in {"import_error", "construct_raised", "ping_failed"}
        \/ app.environ.REDIS_URL = <<>>) =>
        /\ Backend(app) = "LocalFallback"
        /\ app.limiter # <<>> /\ app.limiter[1].storage = "memory"
        /\ Warned

\* C16 (as claimed): when the client was built and its ping answered, the
\* selection ends in Distributed with the limiter on the Redis storage.
C16_PingOkEndsInDistributed ==
    (Selected /\ app.probe = "ok") =>
        /\ Backend(app) = "Distributed"
        /\ app.limiter # <<>> /\ app.limiter[1].storage = "redis"

\* C17 (as claimed): with REDIS_URL absent from the environment the
\* selection ends in LocalFallback, whatever servers are reachable.
C17_UnconfiguredEndsInLocalFallback ==
    (Selected /\ app.environ.REDIS_URL = <<>>) => Backend(app) = "LocalFallback"

\* C18: the selection leaves Probing: create_app always reaches the end of
\* the limiter block, also when the server never answers the ping.
C18_ProbingTerminates ==
    (Backend(app) = "Probing") ~> Selected

\* the ping to a server that never answers timed out, was sent again, timed
\* out again, and the selection fell back
C18_Witness ==
    /\ Selected
    /\ app.client # <<>>
    /\ app.environ.servers[app.client[1].host] = "silent"
    /\ app.attempts = MaxPingRetries
    /\ app.probe = "ping_failed"
    /\ Backend(app) = "LocalFallback"

(***************************************************************************)
(* Claims about the admission check (SpecCounter)                          *)
(***************************************************************************)
InFlight == limits.callers - limits.idle - limits.admitted - limits.rejected

CountAfter(i) == Count(limits.counters[last.addr][i], last.at)
CountBefore(i) == Count(last.before[last.addr][i], last.at)

\* C20: with the Redis storage and with the in-process storage alike, a
\* request is admitted exactly when, once it has been counted, the count of
\* its own client address is within 200 for the day and within 50 for the
\* hour; an admitted request was counted once against both, and no other
\* client's counters moved.
C20_BothLimitsApply ==
    last.op = "request" =>
        /\ app.limiter[1].default_limits = <<"200 per day", "50 per hour">>
        /\ last.admitted <=> (CountAfter(1) <= 200 /\ CountAfter(2) <= 50)
        /\ last.admitted => \A i \in 1..2 : CountAfter(i) = CountBefore(i) + 1
        /\ \A a \in Addresses \ {last.addr} : limits.counters[a] = last.before[a]

\* in the fifth hour the 201st request of the day was rejected by the day
\* limit alone, on the in-process storage, while another client had used
\* up its own hour
C20_Witness ==
    /\ last.op = "request" /\ last.addr = Busy
    /\ limits.counters[Quiet] = Exhausted
    /\ ~last.admitted
    /\ CountAfter(1) = 201
    /\ CountAfter(2) <= 50
    /\ app.limiter[1].storage = "memory"

\* a request was rejected by the hour limit alone, on the Redis storage
C20_WitnessHour ==
    /\ last.op = "request" /\ last.addr = Busy
    /\ ~last.admitted
    /\ CountAfter(2) = 51
    /\ CountAfter(1) <= 200
    /\ app.limiter[1].storage = "redis"

(***************************************************************************)
(* Claims about requests after the selection (SpecBackend)                 *)
(***************************************************************************)
\* C21 (as claimed): in the Distributed state, a login whose admission check
\* finds the Redis server gone is let through: the limiter admits it and
\* the request is not answered with a server error.
C21_OutageFailsOpen ==
    (/\ last.op = "login"
     /\ Backend(app) = "Distributed"
     /\ last.store = "down") =>
        /\ last.admission = "admit"
        /\ last.resp.status < 500

(***************************************************************************)
(* Claims about the registry and the models package (SpecModels)           *)
(***************************************************************************)
\* C22: a registration never raises; for a name that is already registered
\* it returns the stored definition and leaves the registry as it was, for
\* a new name it stores and returns the definition given: so registering
\* defA twice returns defA both times, and defB after defA returns defA.
C22_FirstDefinitionWins ==
    last.op = "register" =>
        LET stored == last.before.registry[last.name] IN
        /\ last.exc = ""
        /\ stored # <<>> =>
              /\ last.value = stored[1]
              /\ app.registry = last.before.registry
        /\ stored = <<>> =>
              /\ last.value = last.definition
              /\ app.registry = [last.before.registry EXCEPT
                                    ![last.name] = <<last.definition>>]

\* defB was registered under a name that held defA, and defA came back
C22_Witness ==
    /\ last.op = "register"
    /\ last.name = "Note"
    /\ last.definition = defB
    /\ last.before.registry["Note"] = <<defA>>
    /\ last.value = defA
    /\ app.registry["Note"] = <<defA>>

\* the class of the user module was registered first, and a later
\* registration under 'User' got that class back
C22_WitnessClass ==
    /\ last.op = "register"
    /\ last.name = "User"
    /\ last.definition = defA
    /\ last.value = ClassOf("user", 1)

\* C23 (as claimed): after every initialization pass no entity is defined
\* or mapped twice, every entity that is defined has its mapping, and after
\* an import_all_models that returned all four entities are defined and
\* mapped.
C23_MappedExactlyOnce ==
    last.op \in {"import_all_models", "create_app"} =>
        /\ \A mod \in Range(ModelModules) :
              /\ app.defined[mod] <= 1
              /\ app.mappers[mod] <= 1
              /\ app.defined[mod] = 1 => app.mappers[mod] = 1
        /\ (last.op = "import_all_models" /\ last.exc = "") =>
              \A mod \in Range(ModelModules) :
                  app.defined[mod] = 1 /\ app.mappers[mod] = 1

\* C30: the modules import_all_models has imported are, in order, a prefix
\* of user, transcript, translation, audit_log, each once, and exactly
\* these are marked; a call adds to what the earlier calls imported, never
\* runs a marked module again, ends with all four when it returns, and when
\* an import raises leaves that module and the later ones unmarked.
C30_ImportedOnceInOrder ==
    app.pc = "models" =>
        /\ IsPrefix(app.imports, ModelModules)
        /\ app.imported = Range(app.imports)
        /\ last.op = "import_all_models" =>
              /\ IsPrefix(last.before.imports, app.imports)
              /\ \A mod \in last.before.imported :
                    app.defined[mod] = last.before.defined[mod]
              /\ last.exc = "" =>
                    last.value = <<TRUE>> /\ app.imports = ModelModules
              /\ last.exc # "" =>
                    /\ Len(app.imports) < Len(ModelModules)
                    /\ ModelModules[Len(app.imports) + 1] \in last.fails
                    /\ \A i \in (Len(app.imports) + 1)..Len(ModelModules) :
                          ModelModules[i] \notin app.imported

\* an earlier call imported user and failed on transcript; this call
\* imported the remaining three and returned
C30_Witness ==
    /\ last.op = "import_all_models"
    /\ last.exc = ""
    /\ last.before.passes = 1
    /\ last.before.imports = <<"user">>
    /\ last.before.imported = {"user"}
    /\ app.imports = ModelModules
    /\ \A mod \in Range(ModelModules) : app.defined[mod] = 1

\* a call that failed on translation
C30_WitnessRaised ==
    /\ last.op = "import_all_models"
    /\ last.exc = "ImportError"
    /\ app.imports = <<"user", "transcript">>
    /\ "translation" \in last.fails

(***************************************************************************)
(* Claims about held tokens (SpecSession)                                  *)
(***************************************************************************)
\* the answer of a token-protected route to a held token, now
AnswerTo(rec) == token_required(Header("Bearer ", <<rec.token>>), now, users)
SignedUnderCurrentKey(rec) ==
    rec.token.sig = <<Sign(SECRET_KEY, ALGORITHM, rec.token.payload)>>
ExpiryOf(rec) == rec.token.payload.exp * TicksPerSecond

\* C24: whatever logins, failed logins, password changes and restarts have
\* happened since a token was issued, verification accepts it, as its
\* subject, at every time before its expiry while the process signs with
\* the key the token was signed with, refuses it as expired from its expiry
\* on, and refuses it as invalid once the process has another key; a
\* request that presented it was answered so.
C24_ValidUntilExpiryOrRotation ==
    app.pc = "serving" =>
        /\ \A i \in 1..Len(issued) :
              LET rec == issued[i]
                  resp == AnswerTo(rec)
              IN  /\ (SignedUnderCurrentKey(rec) /\ now < ExpiryOf(rec)) =>
                        /\ resp.status = 200
                        /\ resp.current_user # <<>>
                        /\ resp.current_user[1].username = rec.sub[1]
                  /\ (SignedUnderCurrentKey(rec) /\ now >= ExpiryOf(rec)) =>
                        resp = Reply(401, "Token has expired")
                  /\ ~SignedUnderCurrentKey(rec) => resp = Reply(401, "Invalid token")
                  /\ app.rotations > 0 /\ rec.token.sig[1].key \in app.used
                        /\ rec.token.sig[1].key # SECRET_KEY
                        => resp.status = 401
        /\ (last.op = "get_current_user" /\ last.at = now) =>
              \A i \in 1..Len(issued) :
                  last.header = Header("Bearer ", <<issued[i].token>>) =>
                      last.resp = AnswerTo(issued[i])

\* the client holds a token from before the restart and one from after it,
\* the password was changed after both were issued, and a request with the
\* newer token was then answered with the account while the older token is
\* refused
C24_Witness ==
    /\ app.pc = "serving"
    /\ app.rotations = 1
    /\ Len(issued) = 2
    /\ ~SignedUnderCurrentKey(issued[1])
    /\ SignedUnderCurrentKey(issued[2])
    /\ users[1].password_changed_at # <<>>
    /\ users[1].password_changed_at[1] > issued[2].at
    /\ users[1].hashed_password # Alice.hashed_password
    /\ last.op = "get_current_user"
    /\ last.header = Header("Bearer ", <<issued[2].token>>)
    /\ last.at > issued[2].at
    /\ last.at = now
    /\ last.resp.status = 200
    /\ AnswerTo(issued[1]) = Reply(401, "Invalid token")

(***************************************************************************)
(* Claims about registration and the error responses (Spec)                *)
(***************************************************************************)
\* a register request whose password validate_password does not accept
WeakRegistration(l) ==
    /\ l.op = "register"
    /\ l.body # <<>>
    /\ ~validate_password(l.body[1].password).ok

\* the request has its three fields, and its email and username are not in
\* the table
FreshAndComplete(l, table) ==
    /\ Truthy(l.body[1].username) /\ Truthy(l.body[1].email)
    /\ Truthy(l.body[1].password)
    /\ ByEmail(table, l.body[1].email.v[1]) = <<>>
    /\ ByUsername(table, l.body[1].username.v[1]) = <<>>

\* the response carries the reason validate_password gives for the password
ReportsPolicyReason(l) ==
    LET v == validate_password(l.body[1].password)
    IN  /\ l.resp.body = <<v.message>>
        /\ (l.body[1].password.t = "str" /\ l.body[1].password.v # <<>>
              /\ Len(l.body[1].password.v) < MinPasswordLength)
             => l.resp.body = <<MsgLength>>

\* C25 (as claimed): every registration with a password that fails the
\* policy is answered with an error that reports the policy reason.
C25_WeakPasswordReported ==
    WeakRegistration(last) => last.resp.status >= 400 /\ ReportsPolicyReason(last)

\* C25 (amended): a registration with a password that fails the policy is
\* answered with an error and leaves the users table as it was; when the
\* request has all its fields and its email and username are free, the
\* answer is the 500 'Server error: <reason>' with the policy reason, else
\* it is a 400 that names the missing fields or the taken email or username.
C25_WeakPasswordPersistsNothing ==
    [][ WeakRegistration(last') =>
           /\ users' = users
           /\ last'.resp.status >= 400
           /\ FreshAndComplete(last', users) =>
                 /\ last'.resp.status = 500
                 /\ last'.resp.message = "Server error: "
                 /\ ReportsPolicyReason(last')
           /\ ~FreshAndComplete(last', users) =>
                 /\ last'.resp.status = 400
                 /\ last'.resp.message \in {"Missing required fields",
                                            "Email already registered",
                                            "Username already taken"}
      ]_vars

\* bob was registered, then alice with the six-character password was
\* refused with the length reason, and bob is still the only row
C25_Witness ==
    /\ WeakRegistration(last)
    /\ last.body[1].password = PwWeak
    /\ last.body[1].username = Text("alice")
    /\ FreshAndComplete(last, users)
    /\ last.resp.status = 500
    /\ last.resp.body = <<MsgLength>>
    /\ Len(users) = 1
    /\ users[1].username = "bob"

\* the stored secret of the row is the bcrypt hash of this password
RegisteredWith(row, password) ==
    /\ password.t = "str"
    /\ row.hashed_password =
          BcryptSecret(BcryptRounds, row.hashed_password.salt, Utf8(password.v))

\* the token is accepted by a token-protected route at time t as this row
VerifiesAs(token, row, t) ==
    LET v == token_required(Header("Bearer ", <<token>>), t, users)
    IN  v.status = 200 /\ v.current_user = <<row>>

\* a login with the row's email and this password, now, is answered 200 with
\* a token for the row's username that verifies
LoginVerifies(row, password) ==
    LET r == login(Text(row.email), password, "admit", now, users, bcrypt_long)
    IN  /\ r.resp.status = 200
        /\ r.token # <<>>
        /\ r.token[1].payload.sub = <<row.username>>
        /\ VerifiesAs(r.token[1], row, now)

\* the columns that hold neither the password nor the stored secret nor a
\* reset token
PublicColumns ==
    {"id", "username", "email", "is_active", "created_at", "last_login_at",
     "password_changed_at"}

\* the passwords of the register requests
RegisterPasswords == {b[1].password : b \in RegisterBodies \ {<<>>}}

\* C26: a registration answered 201 had a policy-compliant password and
\* returns the new row without a password or hashed_password field, its
\* fields being the id, the names, the active flag and the dates of the
\* row; from then on a
\* login with the registered email and password that the limiter admits is
\* answered 200 with a token whose subject is the registered username and
\* which a token-protected route accepts as that user.
C26_RegisterThenLogin ==
    /\ (last.op = "register" /\ last.resp.status = 201) =>
          LET d == last.body[1]
              rec == last.resp.body[1]
              row == users[Len(users)]
          IN  /\ validate_password(d.password).ok
              /\ row.username = d.username.v[1] /\ row.email = d.email.v[1]
              /\ RegisteredWith(row, d.password)
              /\ rec.username = row.username
              /\ DOMAIN rec \cap {"password", "hashed_password"} = {}
              /\ DOMAIN rec = PublicColumns
              /\ \A f \in DOMAIN rec : rec[f] = row[f]
              /\ LoginVerifies(row, d.password)
    /\ \A i \in 1..Len(users), p \in RegisterPasswords :
          RegisteredWith(users[i], p) => LoginVerifies(users[i], p)
    /\ (last.op = "login" /\ last.admission = "admit") =>
          \A i \in 1..Len(users) :
              (last.username = Text(users[i].email)
                 /\ RegisteredWith(users[i], last.password)) =>
                    /\ last.resp.status = 200
                    /\ last.token # <<>>
                    /\ last.token[1].payload.sub = <<users[i].username>>
                    /\ VerifiesAs(last.token[1], users[i], last.at)

\* alice registered with the compliant password, and after the token
\* lifetime had passed a login with the same credentials was answered with
\* a token for "alice" that verifies
C26_Witness ==
    /\ last.op = "login"
    /\ last.admission = "admit"
    /\ last.password = PwHorse
    /\ last.resp.status = 200
    /\ \E i \in 1..Len(users) :
          /\ users[i].username = "alice"
          /\ last.username = Text(users[i].email)
          /\ RegisteredWith(users[i], PwHorse)
          /\ users[i].created_at[1] < last.at
          /\ last.token[1].payload.sub = <<"alice">>
          /\ VerifiesAs(last.token[1], users[i], last.at)

\* C27 (as claimed): no error response of register, login or a
\* token-protected route carries a stack trace; the errors of
\* authentication and throttling have their own short messages.
C27_NoStackTraceInErrors ==
    /\ (last.op = "register" /\ last.resp.status >= 400) => ~last.details
    /\ (last.op = "login" /\ last.resp.status \in {400, 401, 429}) =>
          last.resp.body = <<>>
    /\ (last.op = "login" /\ last.resp.status = 401) =>
          last.resp.message = "Invalid email or password"
    /\ (last.op = "login" /\ last.resp.status = 429) =>
          last.resp.message = "Too Many Requests"
    /\ (last.op = "get_current_user" /\ last.resp.status = 401) =>
          /\ last.resp.body = <<>>
          /\ last.resp.message \in {"Token is missing", "Token has expired",
                                    "Invalid token"}

(***************************************************************************)
(* Claims about concurrent registrations (SpecRace)                        *)
(***************************************************************************)
Answered(r) == app.requests[r].pc = "done"
Persisted(r) == Answered(r) /\ app.requests[r].resp.status = 201

\* C28: in every interleaving of the register requests no two rows share
\* an email or a username; of the requests that name the same email or the
\* same username at most one is answered 201, also when several of them
\* passed the existence checks before any of them committed; a request
\* that is not answered 201 leaves the table as it was.
C28_UniqueUnderRaces ==
    app.pc = "handling" =>
        /\ \A i, j \in 1..Len(users) :
              i # j => /\ users[i].email # users[j].email
                       /\ users[i].username # users[j].username
        /\ \A r, o \in 1..MaxRequests :
              (r # o /\ Persisted(r) /\ Persisted(o)) =>
                  ~Collide(app.requests[r].body, app.requests[o].body)
        /\ Len(users) = Cardinality({r \in 1..MaxRequests : Persisted(r)})
        /\ last.op = "register" =>
              /\ last.resp.status # 201 => users = last.before
              /\ last.resp.status = 201 =>
                    /\ Len(users) = Len(last.before) + 1
                    /\ SubSeq(users, 1, Len(last.before)) = last.before

\* two requests for the same email had both passed the existence checks
\* before either committed; one was answered 201, the other has just been
\* answered 500, and the table holds the one row
C28_Witness ==
    /\ app.pc = "handling"
    /\ last.op = "register"
    /\ last.resp.status = 500
    /\ users = last.before
    /\ Len(users) = 1
    /\ app.requests[last.request].raced
    /\ \E o \in 1..MaxRequests :
          /\ o # last.request
          /\ Persisted(o)
          /\ app.requests[o].raced
          /\ app.requests[o].body[1].email = last.body[1].email
          /\ app.requests[o].body[1].username # last.body[1].username

=============================================================================
